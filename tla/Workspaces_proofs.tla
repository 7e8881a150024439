-------------------------- MODULE Workspaces_proofs --------------------------
(* The front end comes to rest where there is something to see, a new      *)
(* workspace is still the active one when its window opens, the saved      *)
(* settings are the window's, and what the user moves in the sidebar moves *)
(* and nothing else: for any names, groups and settings and any number of  *)
(* moves, edits and failures.                                              *)
EXTENDS Workspaces, FiniteSetTheorems, SequenceTheorems, WellFoundedInduction, TLAPS

(* A set of numbers that has some has a least. *)
LEMMA LeastOf ==
    ASSUME NEW S \in SUBSET Nat, S # {}
    PROVE  \E m \in S : \A k \in S : m <= k
<1> DEFINE R == OpToRel(<, Nat)
<1>1. \A x, y \in Nat : x < y => <<x, y>> \in R
  BY DEF OpToRel
<1>2. IsWellFoundedOn(R, Nat)
  BY NatLessThanWellFounded
<1> HIDE DEF R
<1>3. PICK m \in S : \A y \in S : <<y, m>> \notin R
  BY <1>2, WFMin
<1>4. m \in Nat /\ \A k \in S : k \in Nat /\ ~(k < m)
  BY <1>1, <1>3
<1>5. \A k \in S : m <= k
  BY <1>4
<1> QED  BY <1>5

Dos == {"reconcile", "tail", "spawn", "respawn", "drop"}

(* The tasks that end a switch, each to a workspace. *)
Enders == {"spawn", "respawn", "drop"}

Tasks == {t \in [do : Dos, name : Nat] : t.do \in Enders => t.name \in Names}

Waits(queue, dos) == \E i \in DOMAIN queue : queue[i].do \in dos

(* The fields of the front end, the settings left open. *)
FrontOK(f) ==
    f \in [live : {f.live}, active : {f.active}, file : {f.file},
          switching : BOOLEAN, queue : Seq(Tasks), full : BOOLEAN,
          forgotten : {f.forgotten}, unsaved : BOOLEAN]

(* Whoever announced a switch has a task waiting that ends it. *)
SwitchEnds(f) == f.switching => Waits(f.queue, Enders)

(* Nobody stays in a workspace that is not there: it will be reconciled.   *)
Settles(f) ==
    f.active \in f.live \/ f.live = {} \/ Waits(f.queue, Enders \cup {"reconcile"})

(* A spawn that nothing has come before finds its workspace active, and    *)
(* until then no reconcile leaves it.                                      *)
Home(f) ==
    \A i \in DOMAIN f.queue :
        f.queue[i].do \in Spawns => f.switching /\ f.active = f.queue[i].name

IInv ==
    /\ FrontOK(front) /\ SwitchEnds(front) /\ Settles(front)
    /\ ~crossed => Home(front)
-----------------------------------------------------------------------------
(* The queue. *)

(* Tasks that do one of dos have come in behind.                           *)
Grown(q, r, dos) ==
    /\ Len(q) <= Len(r)
    /\ \A i \in DOMAIN q : r[i] = q[i]
    /\ \A i \in DOMAIN r \ DOMAIN q : r[i].do \in dos

(* What does not start a workspace. *)
Own == {"reconcile", "tail", "drop"}

LEMMA TaskTyped ==
    ASSUME NEW do \in Dos, NEW n \in Names
    PROVE  Task(do, n) \in Tasks /\ Task(do, n).do = do /\ Task(do, n).name = n
<1>1. n \in Nat
  BY DEF Names
<1> QED  BY <1>1 DEF Task, Tasks

LEMMA OwnTasks ==
    /\ Reconcile \in Tasks /\ Reconcile.do = "reconcile"
    /\ TailOfOne \in Tasks /\ TailOfOne.do = "tail"
  BY DEF Reconcile, TailOfOne, Task, Tasks, Dos, Enders

LEMMA AppendGrows ==
    ASSUME NEW q \in Seq(Tasks), NEW t \in Tasks
    PROVE  LET r == Append(q, t)
           IN /\ r \in Seq(Tasks)
              /\ \A dos : t.do \in dos => Grown(q, r, dos) /\ Waits(r, dos)
<1> DEFINE r == Append(q, t)
<1>1. /\ r \in Seq(Tasks) /\ Len(r) = Len(q) + 1 /\ Len(q) \in Nat
      /\ DOMAIN q = 1 .. Len(q) /\ DOMAIN r = 1 .. Len(q) + 1
      /\ \A i \in 1 .. Len(q) : r[i] = q[i]
      /\ r[Len(q) + 1] = t
  OBVIOUS
<1> HIDE DEF r
<1>2. ASSUME NEW dos, t.do \in dos PROVE Grown(q, r, dos) /\ Waits(r, dos)
  <2>1. \A i \in DOMAIN r \ DOMAIN q : i = Len(q) + 1
    BY <1>1
  <2>2. Len(q) + 1 \in DOMAIN r
    BY <1>1
  <2> QED  BY <1>1, <1>2, <2>1, <2>2 DEF Grown, Waits
<1> QED  BY <1>1, <1>2 DEF r

LEMMA GrownGrows ==
    ASSUME NEW q \in Seq(Tasks), NEW r \in Seq(Tasks), NEW s \in Seq(Tasks), NEW dos,
           Grown(q, r, dos), Grown(r, s, dos)
    PROVE  Grown(q, s, dos)
<1>1. /\ DOMAIN q = 1 .. Len(q) /\ DOMAIN r = 1 .. Len(r) /\ DOMAIN s = 1 .. Len(s)
      /\ Len(q) \in Nat /\ Len(r) \in Nat /\ Len(s) \in Nat
  OBVIOUS
<1>2. DOMAIN q \subseteq DOMAIN r /\ DOMAIN r \subseteq DOMAIN s /\ Len(q) <= Len(s)
  BY <1>1 DEF Grown
<1> QED  BY <1>2 DEF Grown

LEMMA GrownWaits ==
    ASSUME NEW q \in Seq(Tasks), NEW r \in Seq(Tasks), NEW dos, NEW some,
           Grown(q, r, dos), Waits(q, some)
    PROVE  Waits(r, some)
<1>1. DOMAIN q \subseteq DOMAIN r
  BY DEF Grown
<1> QED  BY <1>1 DEF Grown, Waits
-----------------------------------------------------------------------------
(* What the operators on the front end keep. *)

LEMMA QueuedKeeps ==
    ASSUME NEW f, FrontOK(f), NEW t \in Tasks
    PROVE  LET g == Queued(f, t)
           IN /\ FrontOK(g)
              /\ g.live = f.live /\ g.active = f.active /\ g.switching = f.switching
              /\ g.queue = Append(f.queue, t)
<1>1. Append(f.queue, t) \in Seq(Tasks)
  BY DEF FrontOK
<1> QED  BY <1>1 DEF FrontOK, Queued

LEMMA ActivatedKeeps ==
    ASSUME NEW f, FrontOK(f), NEW n
    PROVE  LET g == Activated(f, n)
           IN /\ FrontOK(g)
              /\ g.live = f.live /\ g.active = n /\ g.switching = f.switching
              /\ g.queue = Append(f.queue, Reconcile)
<1> DEFINE h == [f EXCEPT !.active = n]
<1>1. /\ FrontOK(h) /\ h.live = f.live /\ h.active = n
      /\ h.switching = f.switching /\ h.queue = f.queue
  BY DEF FrontOK
<1>2. Activated(f, n) = Queued(h, Reconcile)
  BY DEF Activated
<1> HIDE DEF h
<1> QED  BY <1>1, <1>2, OwnTasks, QueuedKeeps

LEMMA SwitchingKeeps ==
    ASSUME NEW f, FrontOK(f), NEW n
    PROVE  LET g == Switching(f, n)
           IN /\ FrontOK(g)
              /\ g.live = f.live /\ g.active = n /\ g.switching
              /\ g.queue = Append(f.queue, Reconcile)
<1> DEFINE h == [f EXCEPT !.switching = TRUE]
<1>1. FrontOK(h) /\ h.live = f.live /\ h.switching /\ h.queue = f.queue
  BY DEF FrontOK
<1>2. Switching(f, n) = Activated(h, n)
  BY DEF Switching
<1> HIDE DEF h
<1> QED  BY <1>1, <1>2, ActivatedKeeps

(* Whether the file is written or not. *)
LEMMA ForgottenKeeps ==
    ASSUME NEW f, FrontOK(f), NEW n
    PROVE  LET g == Forgotten(f, n)
           IN /\ FrontOK(g) /\ g.live = f.live /\ g.active = f.active
              /\ g.switching = f.switching /\ g.queue = f.queue
<1> DEFINE w == [f EXCEPT !.file = Removed(@, n), !.forgotten = @ \cup {n}]
<1>1. /\ FrontOK(w) /\ w.live = f.live /\ w.active = f.active
      /\ w.switching = f.switching /\ w.queue = f.queue
  BY DEF FrontOK
<1>2. Forgotten(f, n) = f \/ Forgotten(f, n) = w
  BY DEF Forgotten
<1> HIDE DEF w
<1> QED  BY <1>1, <1>2

(* A reconcile leaves nobody in a workspace that is not there, unless a    *)
(* switch is under way; and it queues tasks of its own only.               *)
LEMMA ReconciledKeeps ==
    ASSUME NEW f, FrontOK(f)
    PROVE  LET g == Reconciled(f)
           IN /\ FrontOK(g)
              /\ g.live = f.live /\ g.switching = f.switching
              /\ Grown(f.queue, g.queue, Own)
              /\ ~f.switching => Settles(g)
<1> DEFINE next == NextOf(Display(f.file, f.live \cup {f.active}), f.active, f.live)
           left == IF f.live = {} THEN f ELSE Activated(f, next)
           l == Forgotten(left, f.active)
           g == Reconciled(f)
<1>1. f.queue \in Seq(Tasks) /\ Grown(f.queue, f.queue, Own)
  BY DEF FrontOK, Grown
<1>2. g = IF f.active \in f.live THEN Queued(f, TailOfOne)
          ELSE IF f.switching THEN f ELSE Queued(l, TailOfOne)
  BY DEF Reconciled
<1>3. CASE f.active \in f.live
  <2>1. /\ FrontOK(g) /\ g.live = f.live /\ g.active = f.active
        /\ g.switching = f.switching /\ g.queue = Append(f.queue, TailOfOne)
    BY <1>2, <1>3, OwnTasks, QueuedKeeps
  <2>2. Grown(f.queue, g.queue, Own)
    BY <1>1, <2>1, OwnTasks, AppendGrows DEF Own
  <2> HIDE DEF g
  <2> QED  BY <1>3, <2>1, <2>2 DEF Settles, g
<1>4. CASE f.active \notin f.live /\ f.switching
  BY <1>1, <1>2, <1>4
<1>5. CASE f.active \notin f.live /\ ~f.switching
  <2>1. /\ FrontOK(left) /\ left.live = f.live /\ left.switching = f.switching
        /\ Grown(f.queue, left.queue, Own)
        /\ f.live = {} \/ Waits(left.queue, {"reconcile"})
    <3>1. CASE f.live = {}
      BY <1>1, <3>1
    <3>2. CASE f.live # {}
      <4> HIDE DEF next
      <4>1. /\ FrontOK(left) /\ left.live = f.live /\ left.switching = f.switching
            /\ left.queue = Append(f.queue, Reconcile)
        BY <3>2, ActivatedKeeps
      <4> HIDE DEF left
      <4> QED  BY <1>1, <4>1, OwnTasks, AppendGrows DEF Own
    <3> QED  BY <3>1, <3>2
  <2> HIDE DEF left
  <2>2. /\ FrontOK(l) /\ l.live = left.live /\ l.switching = left.switching
        /\ l.queue = left.queue
    BY <2>1, ForgottenKeeps
  <2> HIDE DEF l
  <2>3. /\ FrontOK(g) /\ g.live = f.live /\ g.switching = f.switching
        /\ g.queue = Append(left.queue, TailOfOne)
    BY <1>2, <1>5, <2>1, <2>2, OwnTasks, QueuedKeeps
  <2> HIDE DEF g
  <2>4. /\ left.queue \in Seq(Tasks) /\ g.queue \in Seq(Tasks)
        /\ Grown(left.queue, g.queue, Own)
    BY <2>1, <2>3, OwnTasks, AppendGrows DEF FrontOK, Own
  <2>5. Grown(f.queue, g.queue, Own)
    BY <1>1, <2>1, <2>4, GrownGrows
  <2>6. Settles(g)
    <3>1. f.live # {} => Waits(g.queue, {"reconcile"})
      BY <2>1, <2>4, GrownWaits
    <3> QED  BY <2>3, <3>1 DEF Settles, Waits
  <2> QED  BY <2>3, <2>5, <2>6 DEF g
<1> HIDE DEF g
<1> QED  BY <1>3, <1>4, <1>5 DEF g

LEMMA SwitchedKeeps ==
    ASSUME NEW f, FrontOK(f), NEW n
    PROVE  LET g == Switched(f, n)
           IN /\ FrontOK(g) /\ g.live = f.live /\ ~g.switching
              /\ Grown(f.queue, g.queue, Own) /\ Settles(g)
<1> DEFINE a == Activated(f, n)
           h == [a EXCEPT !.switching = FALSE]
<1>1. /\ FrontOK(a) /\ a.live = f.live /\ a.queue = Append(f.queue, Reconcile)
  BY ActivatedKeeps
<1> HIDE DEF a
<1>2. /\ FrontOK(h) /\ h.live = f.live /\ ~h.switching /\ h.queue = a.queue
  BY <1>1 DEF FrontOK
<1>3. Switched(f, n) = Reconciled(h)
  BY DEF Switched, a
<1> HIDE DEF h
<1> DEFINE g == Reconciled(h)
<1>4. /\ FrontOK(g) /\ g.live = f.live /\ ~g.switching
      /\ Grown(h.queue, g.queue, Own) /\ Settles(g)
  BY <1>2, ReconciledKeeps
<1> HIDE DEF g
<1>5. /\ f.queue \in Seq(Tasks) /\ h.queue \in Seq(Tasks) /\ g.queue \in Seq(Tasks)
      /\ Grown(f.queue, h.queue, Own)
  BY <1>1, <1>2, <1>4, OwnTasks, AppendGrows DEF FrontOK, Own
<1>6. Grown(f.queue, g.queue, Own)
  BY <1>4, <1>5, GrownGrows
<1> QED  BY <1>3, <1>4, <1>6 DEF g
-----------------------------------------------------------------------------
(* Nothing of the queue brings a new spawn but what starts a workspace.    *)

LEMMA PendingWaits == ASSUME NEW f PROVE Pending(f) <=> Waits(f.queue, Spawns)
  BY DEF Pending, Waits

LEMMA GrownPending ==
    ASSUME NEW f, NEW g, FrontOK(f), FrontOK(g), Grown(f.queue, g.queue, Own)
    PROVE  Pending(g) <=> Pending(f)
<1>1. DOMAIN f.queue \subseteq DOMAIN g.queue
  BY DEF Grown, FrontOK
<1>2. \A i \in DOMAIN g.queue \ DOMAIN f.queue : g.queue[i].do \notin Spawns
  BY DEF Grown, Own, Spawns
<1> QED  BY <1>1, <1>2 DEF Grown, Pending

LEMMA NoneIsHome == ASSUME NEW f, ~Pending(f) PROVE Home(f)
  BY DEF Pending, Home

LEMMA IdleSwitchEnds == ASSUME NEW f, ~f.switching PROVE SwitchEnds(f)
  BY DEF SwitchEnds

(* What is left of the queue when its first task has been taken.           *)
LEMMA PoppedKeeps ==
    ASSUME FrontOK(front), front.queue # <<>>
    PROVE  /\ FrontOK(Popped)
           /\ Popped.live = front.live /\ Popped.active = front.active
           /\ Popped.switching = front.switching
           /\ Head(front.queue) \in Tasks
           /\ \A dos : Waits(front.queue, dos)
                        <=> Waits(Popped.queue, dos) \/ Head(front.queue).do \in dos
           /\ Home(front) => Home(Popped)
<1> DEFINE q == front.queue
           r == Tail(q)
<1>1. q \in Seq(Tasks) /\ Len(q) > 0
  BY DEF FrontOK
<1>2. /\ r \in Seq(Tasks) /\ Head(q) \in Tasks /\ Head(q) = q[1]
      /\ DOMAIN q = 1 .. Len(q) /\ DOMAIN r = 1 .. Len(q) - 1 /\ Len(q) \in Nat
      /\ \A i \in DOMAIN r : r[i] = q[i + 1]
  BY <1>1
<1>3. /\ FrontOK(Popped)
      /\ Popped.live = front.live /\ Popped.active = front.active
      /\ Popped.switching = front.switching /\ Popped.queue = r
  BY <1>2 DEF FrontOK, Popped
<1> HIDE DEF r
<1>4. ASSUME NEW dos
      PROVE  Waits(q, dos) <=> Waits(r, dos) \/ Head(q).do \in dos
  <2>1. ASSUME NEW i \in DOMAIN r PROVE i + 1 \in DOMAIN q /\ q[i + 1] = r[i]
    BY <1>2
  <2>2. ASSUME NEW i \in DOMAIN q, i # 1 PROVE i - 1 \in DOMAIN r /\ r[i - 1] = q[i]
    BY <1>2, <2>2
  <2>3. 1 \in DOMAIN q
    BY <1>1, <1>2
  <2> QED  BY <1>2, <2>1, <2>2, <2>3 DEF Waits
<1>5. ASSUME Home(front) PROVE Home(Popped)
  <2>1. ASSUME NEW i \in DOMAIN r PROVE i + 1 \in DOMAIN q /\ q[i + 1] = r[i]
    BY <1>2
  <2> QED  BY <1>3, <1>5, <2>1 DEF Home
<1> QED  BY <1>2, <1>3, <1>4, <1>5
-----------------------------------------------------------------------------
(* The steps. *)

LEMMA InitIInv == Init => IInv
<1> SUFFICES ASSUME Init PROVE IInv
  OBVIOUS
<1>1. PICK i \in Names :
        front = [live |-> 1 .. i, active |-> 1, file |-> NoConfigs,
                 switching |-> FALSE, queue |-> <<>>, full |-> FALSE,
                 forgotten |-> {}, unsaved |-> FALSE]
  BY DEF Init
<1>2. front.queue = <<>> /\ ~front.switching /\ FrontOK(front)
  BY <1>1 DEF FrontOK
<1>3. front.active \in front.live
  BY <1>1 DEF Names
<1> QED  BY <1>2, <1>3 DEF IInv, SwitchEnds, Settles, Home

LEMMA RunIInv == ASSUME IInv, Run PROVE IInv'
<1> DEFINE task == Head(front.queue)
           f == Popped
           g == Ran(f, task)
<1>1. front.queue # <<>> /\ front' = g
      /\ crossed' = (Pending(front') /\ (crossed \/ task.do # "reconcile"))
  BY DEF Run
<1>2. /\ FrontOK(f) /\ f.live = front.live /\ f.active = front.active
      /\ f.switching = front.switching /\ task \in Tasks
      /\ \A dos : Waits(front.queue, dos) <=> Waits(f.queue, dos) \/ task.do \in dos
      /\ Home(front) => Home(f)
  BY <1>1, PoppedKeeps DEF IInv
<1> HIDE DEF task, f
<1>3. CASE task.do = "reconcile" /\ f.switching
  <2>1. g = f
    BY <1>3 DEF Ran, Spawns
  <2>2. Waits(f.queue, Enders)
    BY <1>2, <1>3 DEF IInv, SwitchEnds, Enders
  <2>3. SwitchEnds(f) /\ Settles(f)
    BY <2>2 DEF SwitchEnds, Settles, Waits
  <2>4. ~crossed' => Home(f)
    BY <1>1, <1>2, <1>3, <2>1, NoneIsHome DEF IInv
  <2> QED  BY <1>1, <1>2, <2>1, <2>3, <2>4 DEF IInv
<1>4. CASE task.do = "reconcile" /\ ~f.switching
  <2>1. g = Reconciled(f)
    BY <1>4 DEF Ran, Spawns
  <2>2. /\ FrontOK(g) /\ ~g.switching /\ Settles(g) /\ Grown(f.queue, g.queue, Own)
    BY <1>2, <1>4, <2>1, ReconciledKeeps
  <2> HIDE DEF g
  <2>3. ~crossed' => Home(g)
    <3>1. SUFFICES ASSUME ~crossed', Pending(g) PROVE FALSE
      BY NoneIsHome
    <3>2. Home(f)
      BY <1>1, <1>2, <1>4, <3>1 DEF IInv
    <3>3. Pending(f)
      BY <1>2, <2>2, <3>1, GrownPending
    <3> QED  BY <1>4, <3>2, <3>3 DEF Home, Pending
  <2> QED  BY <1>1, <2>2, <2>3, IdleSwitchEnds DEF IInv
<1>5. CASE task.do = "tail"
  <2>1. g = [f EXCEPT !.switching = FALSE]
    BY <1>5 DEF Ran, Spawns
  <2>2. /\ FrontOK(g) /\ ~g.switching /\ g.queue = f.queue
        /\ g.live = f.live /\ g.active = f.active
    BY <1>2, <2>1 DEF FrontOK
  <2> HIDE DEF g
  <2>3. Settles(g)
    BY <1>2, <1>5, <2>2 DEF IInv, Settles, Enders
  <2>4. ~crossed' => Home(g)
    BY <1>1, <1>5, NoneIsHome
  <2> QED  BY <1>1, <2>2, <2>3, <2>4, IdleSwitchEnds DEF IInv
<1>6. CASE task.do \in Enders
  <2>1. PICK h : FrontOK(h) /\ g = Switched(h, task.name)
    <3>1. CASE task.do = "drop"
      BY <1>2, <3>1 DEF Ran, Spawns
    <3>2. CASE task.do \in Spawns
      <4> DEFINE o == [f EXCEPT !.live = @ \cup {f.active}]
      <4>1. FrontOK(o)
        BY <1>2 DEF FrontOK
      <4>2. Opened(f) = Queued(o, Reconcile)
        BY DEF Opened
      <4> HIDE DEF o
      <4>3. FrontOK(Opened(f))
        BY <4>1, <4>2, OwnTasks, QueuedKeeps
      <4>4. g = Switched(Opened(f), task.name)
        BY <3>2 DEF Ran, Spawns
      <4> QED  BY <4>3, <4>4
    <3> QED  BY <1>6, <3>1, <3>2 DEF Enders, Spawns
  <2>2. FrontOK(g) /\ ~g.switching /\ Settles(g)
    BY <2>1, SwitchedKeeps
  <2> HIDE DEF g
  <2>3. ~crossed' => Home(g)
    BY <1>1, <1>6, NoneIsHome DEF Enders
  <2> QED  BY <1>1, <2>2, <2>3, IdleSwitchEnds DEF IInv
<1>7. task.do \in {"reconcile", "tail"} \cup Enders
  BY <1>2 DEF Tasks, Dos, Enders
<1> HIDE DEF g
<1> QED  BY <1>3, <1>4, <1>5, <1>6, <1>7

LEMMA SpawnFailsIInv == ASSUME IInv, SpawnFails PROVE IInv'
<1>1. /\ front.queue # <<>> /\ front' = Switched(Popped, Head(front.queue).name)
      /\ crossed' = Pending(front')
  BY DEF SpawnFails
<1>2. FrontOK(Popped)
  BY <1>1, PoppedKeeps DEF IInv
<1>3. FrontOK(front') /\ ~front'.switching /\ Settles(front')
  BY <1>1, <1>2, SwitchedKeeps
<1>4. ~crossed' => Home(front')
  BY <1>1, NoneIsHome
<1> QED  BY <1>3, <1>4, IdleSwitchEnds DEF IInv

(* Steps of the user that start no workspace.                              *)
LEMMA OwnIInv ==
    ASSUME IInv, FrontOK(front'), SwitchEnds(front'), Settles(front'),
           Grown(front.queue, front'.queue, Own), Crossed(front')
    PROVE  IInv'
<1>1. Pending(front') <=> Pending(front)
  BY GrownPending DEF IInv
<1>2. ~crossed' => Home(front')
  BY <1>1, NoneIsHome DEF Crossed
<1> QED  BY <1>2 DEF IInv

LEMMA SwitchedIInv ==
    ASSUME IInv, NEW f, NEW n, FrontOK(f), front' = Switched(f, n),
           Grown(front.queue, f.queue, Own), Crossed(front')
    PROVE  IInv'
<1>1. /\ FrontOK(front') /\ ~front'.switching /\ Settles(front')
      /\ Grown(f.queue, front'.queue, Own)
  BY SwitchedKeeps
<1>2. /\ front.queue \in Seq(Tasks) /\ f.queue \in Seq(Tasks) /\ front'.queue \in Seq(Tasks)
  BY <1>1 DEF IInv, FrontOK
<1>3. Grown(front.queue, front'.queue, Own)
  BY <1>1, <1>2, GrownGrows
<1> QED  BY <1>1, <1>3, IdleSwitchEnds, OwnIInv

(* A workspace that is started, and its spawn.                             *)
LEMMA SpawningIInv ==
    ASSUME IInv, NEW f, FrontOK(f), f.queue = front.queue, NEW n \in Names, NEW do \in Spawns,
           front' = Spawning(f, n, do), Crossed(front')
    PROVE  IInv'
<1> DEFINE s == Switching(f, n)
           t == Task(do, n)
           q == front.queue
<1>1. /\ FrontOK(s) /\ s.active = n /\ s.switching /\ s.queue = Append(q, Reconcile)
  BY SwitchingKeeps
<1>2. t \in Tasks /\ t.do = do /\ t.name = n
  BY TaskTyped DEF Spawns, Dos
<1>3. front' = Queued(s, t)
  BY DEF Spawning
<1> HIDE DEF s, t
<1>4. /\ FrontOK(front') /\ front'.active = n /\ front'.switching
      /\ front'.queue = Append(s.queue, t)
  <2>1. /\ FrontOK(Queued(s, t))
        /\ Queued(s, t).active = s.active /\ Queued(s, t).switching = s.switching
        /\ Queued(s, t).queue = Append(s.queue, t)
    BY <1>1, <1>2, QueuedKeeps
  <2> QED  BY <1>1, <1>3, <2>1
<1>5. Waits(front'.queue, Enders)
  <2>1. s.queue \in Seq(Tasks)
    BY <1>1 DEF FrontOK
  <2>2. do \in Enders
    BY DEF Spawns, Enders
  <2> QED  BY <1>2, <1>4, <2>1, <2>2, AppendGrows
<1>6. SwitchEnds(front') /\ Settles(front')
  BY <1>5 DEF SwitchEnds, Settles, Waits
<1>7. ASSUME ~crossed' PROVE Home(front')
  <2>1. Pending(front')
    <3>1. s.queue \in Seq(Tasks)
      BY <1>1 DEF FrontOK
    <3>2. Waits(front'.queue, Spawns)
      BY <1>2, <1>4, <3>1, AppendGrows
    <3> QED  BY <3>2, PendingWaits
  <2>2. ~Pending(front)
    BY <1>7, <2>1 DEF Crossed
  <2>3. q \in Seq(Tasks)
    BY DEF IInv, FrontOK
  <2>4. ASSUME NEW i \in DOMAIN front'.queue, front'.queue[i].do \in Spawns
        PROVE  front'.queue[i] = t
    <3>1. \/ i \in DOMAIN q /\ front'.queue[i] = q[i]
          \/ front'.queue[i] = Reconcile
          \/ front'.queue[i] = t
      BY <1>1, <1>2, <1>4, <2>3, OwnTasks
    <3>2. Reconcile.do \notin Spawns
      BY OwnTasks DEF Spawns
    <3> QED  BY <2>2, <2>4, <3>1, <3>2 DEF Pending
  <2> QED  BY <1>2, <1>4, <2>4 DEF Home
<1> QED  BY <1>4, <1>6, <1>7 DEF IInv

LEMMA SavedKeeps ==
    ASSUME NEW f, FrontOK(f), NEW c
    PROVE  LET g == Saved(f, c)
           IN /\ FrontOK(g) /\ g.live = f.live /\ g.active = f.active
              /\ g.switching = f.switching /\ g.queue = f.queue
<1> DEFINE v == [f EXCEPT !.unsaved = TRUE]
           w == [f EXCEPT !.file = c, !.forgotten = {}, !.unsaved = FALSE]
<1>1. /\ FrontOK(v) /\ v.live = f.live /\ v.active = f.active
      /\ v.switching = f.switching /\ v.queue = f.queue
  BY DEF FrontOK
<1>2. /\ FrontOK(w) /\ w.live = f.live /\ w.active = f.active
      /\ w.switching = f.switching /\ w.queue = f.queue
  BY DEF FrontOK
<1>3. Saved(f, c) = v \/ Saved(f, c) = w
  BY DEF Saved
<1> HIDE DEF v, w
<1> QED  BY <1>1, <1>2, <1>3

(* Nothing the front end decides by has changed.                           *)
LEMMA SameIInv ==
    ASSUME IInv, FrontOK(front'), front'.live = front.live, front'.active = front.active,
           front'.switching = front.switching, front'.queue = front.queue,
           crossed' = crossed \/ Crossed(front')
    PROVE  IInv'
<1>1. SwitchEnds(front') /\ Settles(front') /\ (Home(front) => Home(front'))
  BY DEF IInv, SwitchEnds, Settles, Home
<1>2. Pending(front') <=> Pending(front)
  BY DEF Pending
<1>3. ~crossed' => Home(front')
  BY <1>1, <1>2, NoneIsHome DEF IInv, Crossed
<1> QED  BY <1>1, <1>3 DEF IInv

LEMMA EditIInv == ASSUME IInv, NEW c, Edit(c) PROVE IInv'
<1>1. front' = Saved(front, c) /\ crossed' = crossed
  BY DEF Edit
<1> QED  BY <1>1, SavedKeeps, SameIInv DEF IInv

LEMMA NewNameTyped == ASSUME Unused # {} PROVE NewName \in Names
<1>1. Unused \in SUBSET Nat
  BY ConfigsAssumption DEF Unused, Names
<1>2. PICK m \in Unused : \A k \in Unused : m <= k
  BY <1>1, LeastOf
<1>3. NewName \in Unused
  BY <1>2 DEF NewName
<1> QED  BY <1>3 DEF Unused

LEMMA NewWorkspaceIInv == ASSUME IInv, NewWorkspace PROVE IInv'
<1>1. front' = Spawning(Saved(front, copy'), NewName, "spawn") /\ Crossed(front') /\ Unused # {}
  BY DEF NewWorkspace
<1>2. FrontOK(Saved(front, copy')) /\ Saved(front, copy').queue = front.queue
  BY SavedKeeps DEF IInv
<1>3. NewName \in Names /\ "spawn" \in Spawns
  BY <1>1, NewNameTyped DEF Spawns
<1> QED  BY <1>1, <1>2, <1>3, SpawningIInv

LEMMA SwitchToWorkspaceIInv ==
    ASSUME IInv, NEW n \in Names, SwitchToWorkspace(n)
    PROVE  IInv'
<1>1. CASE n \in front.live
  <2>1. front' = Switched(Switching(front, n), n) /\ Crossed(front')
    BY <1>1 DEF SwitchToWorkspace
  <2>2. /\ FrontOK(Switching(front, n))
        /\ Switching(front, n).queue = Append(front.queue, Reconcile)
    BY SwitchingKeeps DEF IInv
  <2>3. front.queue \in Seq(Tasks)
    BY DEF IInv, FrontOK
  <2>4. Grown(front.queue, Switching(front, n).queue, Own)
    BY <2>2, <2>3, OwnTasks, AppendGrows DEF Own
  <2> QED  BY <2>1, <2>2, <2>4, SwitchedIInv
<1>2. CASE n \notin front.live
  <2>1. front' = Spawning(front, n, "respawn") /\ Crossed(front')
    BY <1>2 DEF SwitchToWorkspace
  <2>2. "respawn" \in Spawns /\ FrontOK(front)
    BY DEF Spawns, IInv
  <2> QED  BY <2>1, <2>2, SpawningIInv
<1> QED  BY <1>1, <1>2

LEMMA ActivateIInv ==
    ASSUME IInv, NEW n \in Names, Activate(n)
    PROVE  IInv'
<1>1. front' = Switched(front, n) /\ Crossed(front')
  BY DEF Activate
<1>2. FrontOK(front) /\ Grown(front.queue, front.queue, Own)
  BY DEF IInv, FrontOK, Grown
<1> QED  BY <1>1, <1>2, SwitchedIInv

(* The mux loses workspaces, and gains some, and asks for a reconcile.     *)
LEMMA ChangedKeeps ==
    ASSUME NEW f, FrontOK(f), NEW live
    PROVE  LET g == Queued([f EXCEPT !.live = live], Reconcile)
           IN /\ FrontOK(g) /\ g.live = live /\ g.active = f.active
              /\ g.switching = f.switching /\ g.queue = Append(f.queue, Reconcile)
              /\ Grown(f.queue, g.queue, Own) /\ Settles(g)
<1> DEFINE h == [f EXCEPT !.live = live]
           g == Queued(h, Reconcile)
<1>1. /\ FrontOK(h) /\ h.live = live /\ h.active = f.active
      /\ h.switching = f.switching /\ h.queue = f.queue
  BY DEF FrontOK
<1> HIDE DEF h
<1>2. /\ FrontOK(g) /\ g.live = live /\ g.active = f.active
      /\ g.switching = f.switching /\ g.queue = Append(f.queue, Reconcile)
  BY <1>1, OwnTasks, QueuedKeeps
<1> HIDE DEF g
<1>3. f.queue \in Seq(Tasks)
  BY DEF FrontOK
<1>4. Grown(f.queue, g.queue, Own) /\ Waits(g.queue, {"reconcile"})
  BY <1>2, <1>3, OwnTasks, AppendGrows DEF Own
<1>5. Settles(g)
  BY <1>4 DEF Settles, Waits
<1> QED  BY <1>2, <1>4, <1>5 DEF g, h

LEMMA GrownSwitchEnds ==
    ASSUME NEW f, NEW g, FrontOK(f), FrontOK(g), SwitchEnds(f), g.switching = f.switching,
           NEW dos, Grown(f.queue, g.queue, dos)
    PROVE  SwitchEnds(g)
<1>1. f.queue \in Seq(Tasks) /\ g.queue \in Seq(Tasks)
  BY DEF FrontOK
<1> QED  BY <1>1, GrownWaits DEF SwitchEnds

LEMMA EndsIInv ==
    ASSUME IInv, NEW n \in Names, Ends(n)
    PROVE  IInv'
<1> DEFINE g == Queued([front EXCEPT !.live = front.live \ {n}], Reconcile)
<1>1. front' = g /\ crossed' = crossed
  BY DEF Ends
<1>2. /\ FrontOK(g) /\ g.active = front.active /\ g.switching = front.switching
      /\ Grown(front.queue, g.queue, Own) /\ Settles(g)
  BY ChangedKeeps DEF IInv
<1> HIDE DEF g
<1>3. SwitchEnds(g)
  BY <1>2, GrownSwitchEnds DEF IInv
<1>4. Home(front) => Home(g)
  <2>1. ASSUME NEW i \in DOMAIN g.queue, g.queue[i].do \in Spawns
        PROVE  i \in DOMAIN front.queue /\ g.queue[i] = front.queue[i]
    BY <1>2, <2>1 DEF Grown, Own, Spawns
  <2> QED  BY <1>2, <2>1 DEF Home
<1> QED  BY <1>1, <1>2, <1>3, <1>4 DEF IInv

LEMMA CloseIInv ==
    ASSUME IInv, NEW n \in Names, Close(n)
    PROVE  IInv'
<1> DEFINE next == NextOf(Display(copy, front.live), n, front.live)
           f == IF n = front.active THEN Switched(front, next) ELSE front
           g == Queued([f EXCEPT !.live = f.live \ {n}], Reconcile)
<1>1. /\ \/ front' = front
         \/ front' = Saved(front, copy)
         \/ front' = Saved(g, copy')
      /\ Crossed(front')
  BY DEF Close
<1>2. CASE front' = front \/ front' = Saved(front, copy)
  BY <1>1, <1>2, SavedKeeps, SameIInv DEF IInv
<1>3. CASE front' = Saved(g, copy')
  <2>1. /\ FrontOK(f) /\ SwitchEnds(f) /\ Grown(front.queue, f.queue, Own)
    <3>1. FrontOK(front) /\ SwitchEnds(front) /\ Grown(front.queue, front.queue, Own)
      BY DEF IInv, FrontOK, Grown
    <3> HIDE DEF next
    <3>2. /\ FrontOK(Switched(front, next)) /\ ~Switched(front, next).switching
          /\ Grown(front.queue, Switched(front, next).queue, Own)
      BY <3>1, SwitchedKeeps
    <3> QED  BY <3>1, <3>2, IdleSwitchEnds
  <2> HIDE DEF f
  <2>2. /\ FrontOK(g) /\ g.switching = f.switching
        /\ Grown(f.queue, g.queue, Own) /\ Settles(g)
    BY <2>1, ChangedKeeps
  <2> HIDE DEF g
  <2>3. /\ FrontOK(front') /\ front'.live = g.live /\ front'.active = g.active
        /\ front'.switching = g.switching /\ front'.queue = g.queue
    BY <1>3, <2>2, SavedKeeps
  <2>4. SwitchEnds(g)
    BY <2>1, <2>2, GrownSwitchEnds
  <2>5. Grown(front.queue, g.queue, Own)
    <3>1. front.queue \in Seq(Tasks) /\ f.queue \in Seq(Tasks) /\ g.queue \in Seq(Tasks)
      BY <2>1, <2>2 DEF IInv, FrontOK
    <3> QED  BY <2>1, <2>2, <3>1, GrownGrows
  <2>6. SwitchEnds(front') /\ Settles(front')
    BY <2>2, <2>3, <2>4 DEF SwitchEnds, Settles
  <2> QED  BY <1>1, <2>3, <2>5, <2>6, OwnIInv
<1> QED  BY <1>1, <1>2, <1>3

(* A rename of the active workspace, or to its name, is a switch that its  *)
(* own task ends.                                                          *)
LEMMA RenameIInv ==
    ASSUME IInv, NEW n \in Names, NEW m \in Names, Rename(n, m)
    PROVE  IInv'
<1> DEFINE told == IF front.active \in {n, m}
                   THEN Queued([front EXCEPT !.switching = TRUE], Task("drop", m)) ELSE front
           g == Queued([told EXCEPT !.live = (told.live \ {n}) \cup {m}], Reconcile)
<1>1. front' = (IF front.active = n THEN Activated(g, m) ELSE g) /\ Crossed(front')
  BY DEF Rename
<1>2. FrontOK(told) /\ SwitchEnds(told) /\ Grown(front.queue, told.queue, Own)
  <2> DEFINE s == [front EXCEPT !.switching = TRUE]
             t == Task("drop", m)
  <2>1. front.queue \in Seq(Tasks) /\ Grown(front.queue, front.queue, Own)
    BY DEF IInv, FrontOK, Grown
  <2>2. FrontOK(s) /\ s.queue = front.queue
    BY DEF IInv, FrontOK
  <2>3. t \in Tasks /\ t.do = "drop"
    BY TaskTyped DEF Dos
  <2> HIDE DEF s, t
  <2>4. FrontOK(Queued(s, t)) /\ Queued(s, t).queue = Append(front.queue, t)
    BY <2>2, <2>3, QueuedKeeps
  <2>5. /\ Grown(front.queue, Append(front.queue, t), Own)
        /\ Waits(Append(front.queue, t), Enders)
    BY <2>1, <2>3, AppendGrows DEF Own, Enders
  <2>6. SwitchEnds(Queued(s, t)) /\ Grown(front.queue, Queued(s, t).queue, Own)
    BY <2>4, <2>5 DEF SwitchEnds
  <2> QED  BY <2>1, <2>4, <2>6 DEF s, t, IInv
<1> HIDE DEF told
<1>3. /\ FrontOK(g) /\ g.switching = told.switching
      /\ Grown(told.queue, g.queue, Own) /\ Settles(g)
  BY <1>2, ChangedKeeps
<1> HIDE DEF g
<1>4. SwitchEnds(g)
  BY <1>2, <1>3, GrownSwitchEnds
<1>5. Grown(front.queue, g.queue, Own) /\ front.queue \in Seq(Tasks) /\ g.queue \in Seq(Tasks)
  <2>1. front.queue \in Seq(Tasks) /\ told.queue \in Seq(Tasks) /\ g.queue \in Seq(Tasks)
    BY <1>2, <1>3 DEF IInv, FrontOK
  <2> QED  BY <1>2, <1>3, <2>1, GrownGrows
<1>6. CASE front' = g
  BY <1>1, <1>3, <1>4, <1>5, <1>6, OwnIInv
<1>7. CASE front' = Activated(g, m)
  <2>1. /\ FrontOK(front') /\ front'.switching = g.switching
        /\ front'.queue = Append(g.queue, Reconcile)
    BY <1>3, <1>7, ActivatedKeeps
  <2>2. Grown(g.queue, front'.queue, Own) /\ Waits(front'.queue, {"reconcile"})
    BY <1>5, <2>1, OwnTasks, AppendGrows DEF Own
  <2>3. SwitchEnds(front')
    BY <1>3, <1>4, <2>1, <2>2, GrownSwitchEnds
  <2>4. Settles(front')
    BY <2>2 DEF Settles, Waits
  <2>5. front'.queue \in Seq(Tasks)
    BY <2>1 DEF FrontOK
  <2>6. Grown(front.queue, front'.queue, Own)
    BY <1>5, <2>2, <2>5, GrownGrows
  <2> QED  BY <1>1, <2>1, <2>3, <2>4, <2>6, OwnIInv
<1> QED  BY <1>1, <1>6, <1>7

(* What happens to the disk is nothing to the front end. *)
Fault == DiskFills \/ DiskDrains \/ FileSpoils

LEMMA FaultDoes ==
    ASSUME FrontOK(front), Fault
    PROVE  /\ FrontOK(front') /\ front'.live = front.live /\ front'.active = front.active
           /\ front'.switching = front.switching /\ front'.queue = front.queue
           /\ front'.forgotten = front.forgotten
           /\ copy' = copy /\ crossed' = crossed
           /\ \/ front'.file = front.file /\ front'.unsaved = front.unsaved
              \/ front'.file = NoConfigs /\ front'.unsaved
<1>1. CASE DiskFills
  BY <1>1 DEF DiskFills, FrontOK
<1>2. CASE DiskDrains
  BY <1>2 DEF DiskDrains, FrontOK
<1>3. CASE FileSpoils
  <2> DEFINE none == NoConfigs
  <2>1. front' = [front EXCEPT !.file = none, !.unsaved = TRUE] /\ copy' = copy /\ crossed' = crossed
    BY <1>3 DEF FileSpoils
  <2> HIDE DEF none
  <2>2. /\ FrontOK(front') /\ front'.live = front.live /\ front'.active = front.active
        /\ front'.switching = front.switching /\ front'.queue = front.queue
        /\ front'.forgotten = front.forgotten /\ front'.file = none /\ front'.unsaved
    BY <2>1 DEF FrontOK
  <2> QED  BY <2>1, <2>2 DEF none
<1> QED  BY <1>1, <1>2, <1>3 DEF Fault

LEMMA FaultIInv == ASSUME IInv, Fault PROVE IInv'
  BY FaultDoes, SameIInv DEF IInv
-----------------------------------------------------------------------------
LEMMA NextIInv == IInv /\ [Next]_vars => IInv'
<1> SUFFICES ASSUME IInv, [Next]_vars PROVE IInv'
  OBVIOUS
<1>1. CASE Run \/ SpawnFails \/ NewWorkspace
  BY <1>1, RunIInv, SpawnFailsIInv, NewWorkspaceIInv
<1>2. ASSUME NEW n \in Names,
             SwitchToWorkspace(n) \/ Activate(n) \/ Close(n) \/ Ends(n)
             \/ \E m \in Names : Rename(n, m)
      PROVE  IInv'
  BY <1>2, SwitchToWorkspaceIInv, ActivateIInv, CloseIInv, EndsIInv, RenameIInv
<1>3. ASSUME NEW n,
             NewGroup(n) \/ LeaveGroup(n) \/ Mark(n)
             \/ (\E to \in {"up", "down", "top", "bottom"} : Move(n, to))
             \/ \E id \in Groups : JoinGroup(n, id)
      PROVE  IInv'
  BY <1>3, EditIInv DEF NewGroup, LeaveGroup, Mark, Move, JoinGroup
<1>4. ASSUME NEW id \in Groups, Ungroup(id) \/ MoveGroup(id, "up") \/ MoveGroup(id, "down")
      PROVE  IInv'
  BY <1>4, EditIInv DEF Ungroup, MoveGroup
<1>5. CASE UNCHANGED vars
  BY <1>5, SameIInv DEF vars, IInv
<1> QED  BY <1>1, <1>2, <1>3, <1>4, <1>5, FaultIInv DEF Next, Fault

THEOREM FrontEndInvariant == Spec => []IInv
  BY InitIInv, NextIInv, PTL DEF Spec

(* When the main thread has nothing left to do no switch is under way, and *)
(* the active workspace is there if any is: whatever was started, closed,  *)
(* renamed or ended in between (GuiFrontEnd::reconcile_workspace and       *)
(* WorkspaceSwitcher).                                                     *)
THEOREM FrontEndSettles == Spec => []QuietIsSettled
<1>1. IInv => QuietIsSettled
  BY DEF IInv, SwitchEnds, Settles, Waits, QuietIsSettled
<1> QED  BY <1>1, FrontEndInvariant, PTL

(* A new workspace is the active one when its window opens, unless the     *)
(* user or the tail of an earlier reconcile has come between               *)
(* (spawn_command_impl within a WorkspaceSwitcher).                        *)
THEOREM SpawnsOpenAtHome == Spec => []SpawnOpensAtHome
<1>1. IInv => SpawnOpensAtHome
  <2> SUFFICES ASSUME IInv, front.queue # <<>>, Head(front.queue).do \in Spawns, ~crossed
               PROVE  front.active = Head(front.queue).name
    BY DEF SpawnOpensAtHome
  <2>1. 1 \in DOMAIN front.queue /\ Head(front.queue) = front.queue[1]
    BY DEF IInv, FrontOK
  <2> QED  BY <2>1 DEF IInv, Home
<1> QED  BY <1>1, FrontEndInvariant, PTL
-----------------------------------------------------------------------------
(* What is left of a sequence (Among), by induction over its length.       *)

(* Induction up to n, over a set of numbers. *)
LEMMA UpTo ==
    ASSUME NEW n \in Nat, NEW S, 0 \in S, \A i \in 1 .. n : i - 1 \in S => i \in S
    PROVE  \A i \in 0 .. n : i \in S
<1> DEFINE Bad == (0 .. n) \ S
<1>1. SUFFICES ASSUME Bad # {} PROVE FALSE
  OBVIOUS
<1>2. Bad \in SUBSET Nat
  OBVIOUS
<1>3. PICK least \in Bad : \A k \in Bad : least <= k
  <2> HIDE DEF Bad
  <2> QED  BY <1>1, <1>2, LeastOf
<1>4. least \in 1 .. n /\ least - 1 \notin Bad
  BY <1>3
<1> QED  BY <1>4

(* What is defined by recursion over 0 .. n exists.  A step is a function  *)
(* of the number and of the value before.                                  *)
IsRun(g, n, T, b, F) ==
    g \in [0 .. n -> T] /\ g[0] = b /\ \A i \in 1 .. n : g[i] = F[i][g[i - 1]]

IsStep(F, n, T) == F \in [1 .. n -> [T -> T]]

LEMMA Recursion ==
    ASSUME NEW n \in Nat, NEW T, NEW b \in T, NEW F, IsStep(F, n, T)
    PROVE  \E g : IsRun(g, n, T, b, F)
<1>0. F \in [1 .. n -> [T -> T]]
  BY DEF IsStep
<1> DEFINE Runs(k) == {g \in [0 .. k -> T] : g[0] = b /\ \A i \in 1 .. k : g[i] = F[i][g[i - 1]]}
           S == {k \in 0 .. n : Runs(k) # {}}
<1>1. 0 \in S
  <2>1. [i \in 0 .. 0 |-> b] \in Runs(0)
    OBVIOUS
  <2> HIDE DEF Runs
  <2> QED  BY <2>1
<1>2. ASSUME NEW k \in 1 .. n, k - 1 \in S PROVE k \in S
  <2>1. PICK g \in Runs(k - 1) : TRUE
    BY <1>2
  <2>2. g \in [0 .. k - 1 -> T] /\ g[0] = b /\ \A i \in 1 .. k - 1 : g[i] = F[i][g[i - 1]]
    BY <2>1
  <2> HIDE DEF Runs, S
  <2>3. /\ k \in 1 .. n /\ 0 \in 0 .. k /\ k \in 0 .. k /\ k - 1 \in 0 .. k - 1 /\ 0 # k
        /\ \A i \in 0 .. k : i = k \/ i \in 0 .. k - 1
        /\ \A i \in 0 .. k - 1 : i # k /\ i \in 0 .. k
        /\ \A i \in 1 .. k : i - 1 \in 0 .. k - 1 /\ i \in 0 .. k /\ (i = k \/ i \in 1 .. k - 1)
    OBVIOUS
  <2> DEFINE h == [i \in 0 .. k |-> IF i = k THEN F[k][g[k - 1]] ELSE g[i]]
  <2>4. F[k][g[k - 1]] \in T
    BY <1>0, <2>2, <2>3
  <2>5. h \in [0 .. k -> T]
    BY <2>2, <2>3, <2>4
  <2>6. h[0] = b /\ h[k] = F[k][g[k - 1]] /\ \A i \in 0 .. k - 1 : h[i] = g[i]
    BY <2>2, <2>3
  <2> HIDE DEF h
  <2>7. \A i \in 1 .. k : h[i] = F[i][h[i - 1]]
    BY <2>2, <2>3, <2>6
  <2>8. h \in Runs(k)
    BY <2>5, <2>6, <2>7 DEF Runs
  <2> QED  BY <2>8 DEF S
<1> HIDE DEF S
<1>3. n \in 0 .. n /\ \A i \in 1 .. n : i - 1 \in S => i \in S
  BY <1>2
<1>4. n \in S
  BY <1>1, <1>3, UpTo
<1> QED  BY <1>4 DEF S, Runs, IsRun
-----------------------------------------------------------------------------
(* Appending adds one element, and keeps what is distinct so if it is new. *)
LEMMA AppendFacts ==
    ASSUME NEW T, NEW s \in Seq(T), NEW t \in T
    PROVE  /\ Append(s, t) \in Seq(T)
           /\ \A x : x \in Range(Append(s, t)) <=> x \in Range(s) \/ x = t
           /\ IsInjective(s) /\ t \notin Range(s) => IsInjective(Append(s, t))
<1> DEFINE r == Append(s, t)
           n == Len(s)
<1>1. /\ r \in Seq(T) /\ n \in Nat /\ DOMAIN s = 1 .. n /\ DOMAIN r = 1 .. n + 1
      /\ r[n + 1] = t /\ \A i \in 1 .. n : r[i] = s[i]
  OBVIOUS
<1> HIDE DEF r, n
<1>2. /\ n + 1 \in 1 .. n + 1 /\ \A i \in 1 .. n : i \in 1 .. n + 1
      /\ \A i \in 1 .. n + 1 : i = n + 1 \/ i \in 1 .. n
  BY <1>1
<1>3. \A x : x \in Range(r) <=> x \in Range(s) \/ x = t
  BY <1>1, <1>2 DEF Range
<1>4. IsInjective(s) /\ t \notin Range(s) => IsInjective(r)
  BY <1>1, <1>2 DEF Range, IsInjective
<1> QED  BY <1>1, <1>3, <1>4 DEF r

(* The steps by which Among goes through a sequence.                       *)
IsFilter(f, s, some) ==
    /\ f[0] = <<>>
    /\ \A i \in 1 .. Len(s) :
          f[i] = IF s[i] \in some THEN Append(f[i - 1], s[i]) ELSE f[i - 1]

LEMMA AmongSteps ==
    ASSUME NEW T, NEW s \in Seq(T), NEW some
    PROVE  \E f : IsFilter(f, s, some) /\ Among(s, some) = f[Len(s)]
<1> DEFINE n == Len(s)
           Rule(f) == [i \in 0 .. n |->
                         IF i = 0 THEN <<>>
                         ELSE IF s[i] \in some THEN Append(f[i - 1], s[i]) ELSE f[i - 1]]
           upto == CHOOSE f : f = Rule(f)
<1>1. Among(s, some) = upto[n]
  BY DEF Among
<1>2. n \in Nat /\ DOMAIN s = 1 .. n /\ \A i \in 1 .. n : s[i] \in T
  OBVIOUS
<1>3. upto = Rule(upto)
  <2> DEFINE F == [i \in 1 .. n |-> [r \in Seq(T) |->
                     IF s[i] \in some THEN Append(r, s[i]) ELSE r]]
  <2>1. F \in [1 .. n -> [Seq(T) -> Seq(T)]]
    BY <1>2
  <2>2. PICK g : IsRun(g, n, Seq(T), <<>>, F)
    <3>1. IsStep(F, n, Seq(T)) /\ <<>> \in Seq(T)
      BY <2>1 DEF IsStep
    <3> HIDE DEF F, n
    <3> QED  BY <1>2, <3>1, Recursion
  <2>3. ASSUME NEW i \in 1 .. n
        PROVE  g[i] = IF s[i] \in some THEN Append(g[i - 1], s[i]) ELSE g[i - 1]
    <3>0. i - 1 \in 0 .. n
      <4> HIDE DEF n
      <4> QED  BY <1>2
    <3>1. g[i - 1] \in Seq(T)
      BY <2>2, <3>0 DEF IsRun
    <3> QED  BY <2>2, <3>1 DEF IsRun
  <2>4. g = Rule(g)
    <3> HIDE DEF F, n
    <3>1. \A i \in 0 .. n : i = 0 \/ i \in 1 .. n
      BY <1>2
    <3>2. \A i \in 0 .. n : g[i] = Rule(g)[i]
      BY <2>2, <2>3, <3>1 DEF IsRun
    <3> QED  BY <2>2, <3>2 DEF IsRun
  <2> HIDE DEF Rule
  <2> QED  BY <2>4
<1>4. /\ upto[0] = <<>>
      /\ \A i \in 1 .. n : upto[i] = IF s[i] \in some THEN Append(upto[i - 1], s[i]) ELSE upto[i - 1]
  <2>1. 0 \in 0 .. n /\ \A i \in 1 .. n : i \in 0 .. n /\ i # 0
    BY <1>2
  <2>2. \A i \in 0 .. n : upto[i] = Rule(upto)[i]
    BY <1>3
  <2> HIDE DEF upto
  <2> QED  BY <2>1, <2>2
<1> HIDE DEF upto
<1> QED  BY <1>1, <1>4 DEF IsFilter

(* What is among some keeps its order, and is there as often as before.    *)
LEMMA AmongFacts ==
    ASSUME NEW T, NEW s \in Seq(T), NEW some
    PROVE  /\ Among(s, some) \in Seq(T)
           /\ \A x : x \in Range(Among(s, some)) <=> x \in Range(s) /\ x \in some
           /\ IsInjective(s) => IsInjective(Among(s, some))
<1> DEFINE n == Len(s)
<1>1. PICK f : IsFilter(f, s, some) /\ Among(s, some) = f[n]
  BY AmongSteps
<1> DEFINE Good == {i \in 0 .. n :
                      /\ f[i] \in Seq(T)
                      /\ \A x : x \in Range(f[i]) <=> x \in some /\ \E j \in 1 .. i : x = s[j]
                      /\ IsInjective(s) => IsInjective(f[i])}
<1>2. n \in Nat /\ DOMAIN s = 1 .. n /\ \A i \in 1 .. n : s[i] \in T
  OBVIOUS
<1>4. /\ f[0] = <<>>
      /\ \A i \in 1 .. n : f[i] = IF s[i] \in some THEN Append(f[i - 1], s[i]) ELSE f[i - 1]
  BY <1>1 DEF IsFilter
<1>8. \A x : x \in Range(s) <=> \E j \in 1 .. n : x = s[j]
  BY DEF n, Range
<1> HIDE DEF n
<1>5. 0 \in Good
  <2>1. /\ <<>> \in Seq(T) /\ DOMAIN <<>> = {} /\ Range(<<>>) = {} /\ IsInjective(<<>>)
        /\ 0 \in 0 .. n /\ 1 .. 0 = {}
    BY <1>2 DEF Range, IsInjective
  <2> QED  BY <1>4, <2>1
<1>6. ASSUME NEW i \in 1 .. n, i - 1 \in Good PROVE i \in Good
  <2> DEFINE u == f[i - 1]
             v == f[i]
  <2>1. /\ u \in Seq(T) /\ (IsInjective(s) => IsInjective(u))
        /\ \A x : x \in Range(u) <=> x \in some /\ \E j \in 1 .. i - 1 : x = s[j]
    BY <1>6
  <2>2. /\ i \in 0 .. n /\ i \in 1 .. i /\ s[i] \in T
        /\ \A j \in 1 .. i - 1 : j \in 1 .. i /\ j \in 1 .. n /\ j # i
        /\ \A j \in 1 .. i : j = i \/ j \in 1 .. i - 1
    BY <1>2
  <2>3. v = IF s[i] \in some THEN Append(u, s[i]) ELSE u
    BY <1>4
  <2> HIDE DEF u, v
  <2>4. CASE s[i] \in some
    <3>1. v = Append(u, s[i])
      BY <2>3, <2>4
    <3>0. u \in Seq(T) /\ s[i] \in T
      BY <2>1, <2>2
    <3>2. v \in Seq(T) /\ \A x : x \in Range(v) <=> x \in Range(u) \/ x = s[i]
      BY <3>0, <3>1, AppendFacts
    <3>3. IsInjective(s) => s[i] \notin Range(u)
      BY <2>1, <2>2, <1>2 DEF IsInjective
    <3>4. IsInjective(s) => IsInjective(v)
      BY <2>1, <3>0, <3>1, <3>3, AppendFacts
    <3>5. \A x : x \in Range(v) <=> x \in some /\ \E j \in 1 .. i : x = s[j]
      BY <2>1, <2>2, <2>4, <3>2
    <3> QED  BY <2>2, <3>2, <3>4, <3>5 DEF v
  <2>5. CASE s[i] \notin some
    <3>1. v = u
      BY <2>3, <2>5
    <3>2. \A x : x \in Range(v) <=> x \in some /\ \E j \in 1 .. i : x = s[j]
      BY <2>1, <2>2, <2>5, <3>1
    <3>3. v \in Seq(T) /\ (IsInjective(s) => IsInjective(v))
      BY <2>1, <3>1
    <3> QED  BY <2>2, <3>2, <3>3 DEF v
  <2> QED  BY <2>4, <2>5
<1>7. n \in Good
  <2> HIDE DEF Good
  <2>1. n \in 0 .. n
    BY <1>2
  <2> QED  BY <1>2, <1>5, <1>6, <2>1, UpTo
<1> QED  BY <1>1, <1>7, <1>8

(* A step of the filter through a longer sequence.                         *)
LEMMA AmongAppend ==
    ASSUME NEW T, NEW s \in Seq(T), NEW t \in T, NEW some
    PROVE  Among(Append(s, t), some) = IF t \in some THEN Append(Among(s, some), t) ELSE Among(s, some)
<1> DEFINE r == Append(s, t)
           n == Len(s)
<1>1. /\ r \in Seq(T) /\ n \in Nat /\ Len(r) = n + 1
      /\ r[n + 1] = t /\ \A i \in 1 .. n : r[i] = s[i]
  OBVIOUS
<1> HIDE DEF r
<1>2. PICK f : IsFilter(f, s, some) /\ Among(s, some) = f[n]
  BY AmongSteps
<1>3. PICK g : IsFilter(g, r, some) /\ Among(r, some) = g[n + 1]
  BY <1>1, AmongSteps
<1> DEFINE Same == {i \in 0 .. n : g[i] = f[i]}
<1>4. /\ 0 \in 0 .. n /\ n \in 0 .. n /\ n + 1 \in 1 .. n + 1 /\ (n + 1) - 1 = n
      /\ \A i \in 1 .. n : i \in 1 .. n + 1 /\ i \in 0 .. n
  BY <1>1
<1>5. f[0] = <<>> /\ \A i \in 1 .. n : f[i] = IF s[i] \in some THEN Append(f[i - 1], s[i]) ELSE f[i - 1]
  BY <1>2 DEF IsFilter
<1>6. g[0] = <<>> /\ \A i \in 1 .. n + 1 : g[i] = IF r[i] \in some THEN Append(g[i - 1], r[i]) ELSE g[i - 1]
  BY <1>1, <1>3 DEF IsFilter
<1> HIDE DEF n
<1>7. 0 \in Same
  BY <1>4, <1>5, <1>6
<1>8. ASSUME NEW i \in 1 .. n, i - 1 \in Same PROVE i \in Same
  <2>1. g[i - 1] = f[i - 1] /\ r[i] = s[i] /\ i \in 0 .. n /\ i \in 1 .. n + 1
    BY <1>1, <1>4, <1>8
  <2>2. g[i] = f[i]
    BY <1>5, <1>6, <2>1
  <2> QED  BY <2>1, <2>2
<1>9. n \in Same
  <2> HIDE DEF Same
  <2> QED  BY <1>1, <1>4, <1>7, <1>8, UpTo
<1>10. g[n] = f[n]
  BY <1>9
<1>11. g[n + 1] = IF t \in some THEN Append(g[n], t) ELSE g[n]
  BY <1>1, <1>4, <1>6
<1> QED  BY <1>2, <1>3, <1>10, <1>11 DEF r

LEMMA AmongEmpty == ASSUME NEW some PROVE Among(<<>>, some) = <<>>
<1>1. PICK f : IsFilter(f, <<>>, some) /\ Among(<<>>, some) = f[0]
  <2>1. <<>> \in Seq({}) /\ Len(<<>>) = 0
    OBVIOUS
  <2> QED  BY <2>1, AmongSteps
<1> QED  BY <1>1 DEF IsFilter

(* What is among some and then among others is among both.                 *)
LEMMA AmongBoth ==
    ASSUME NEW T, NEW s \in Seq(T), NEW some, NEW others
    PROVE  Among(Among(s, some), others) = Among(s, some \cap others)
<1> DEFINE n == Len(s)
<1>1. PICK f : IsFilter(f, s, some) /\ Among(s, some) = f[n]
  BY AmongSteps
<1>2. PICK g : IsFilter(g, s, some \cap others) /\ Among(s, some \cap others) = g[n]
  BY AmongSteps
<1>3. /\ f[0] = <<>>
      /\ \A i \in 1 .. n : f[i] = IF s[i] \in some THEN Append(f[i - 1], s[i]) ELSE f[i - 1]
  BY <1>1 DEF IsFilter
<1>4. /\ g[0] = <<>>
      /\ \A i \in 1 .. n : g[i] = IF s[i] \in some \cap others THEN Append(g[i - 1], s[i]) ELSE g[i - 1]
  BY <1>2 DEF IsFilter
<1>5. n \in Nat /\ \A i \in 1 .. n : s[i] \in T
  OBVIOUS
<1> HIDE DEF n
<1> DEFINE Good == {i \in 0 .. n : f[i] \in Seq(T) /\ Among(f[i], others) = g[i]}
<1>6. 0 \in Good
  <2>1. 0 \in 0 .. n /\ <<>> \in Seq(T)
    BY <1>5
  <2> QED  BY <1>3, <1>4, <2>1, AmongEmpty
<1>7. ASSUME NEW i \in 1 .. n, i - 1 \in Good PROVE i \in Good
  <2>1. f[i - 1] \in Seq(T) /\ Among(f[i - 1], others) = g[i - 1] /\ i \in 0 .. n /\ s[i] \in T
    BY <1>5, <1>7
  <2>2. CASE s[i] \in some
    <3> DEFINE u == f[i - 1]
               t == s[i]
    <3>0. u \in Seq(T) /\ t \in T /\ Among(u, others) = g[i - 1]
      BY <2>1
    <3>1. f[i] = Append(u, t)
      BY <1>3, <2>2
    <3> HIDE DEF u, t
    <3>4. f[i] \in Seq(T)
      BY <3>0, <3>1, AppendFacts
    <3>5. Among(Append(u, t), others)
            = IF t \in others THEN Append(Among(u, others), t) ELSE Among(u, others)
      BY <3>0, AmongAppend
    <3>2. Among(f[i], others) = IF t \in others THEN Append(g[i - 1], t) ELSE g[i - 1]
      BY ONLY <3>0, <3>1, <3>5
    <3>3. Among(f[i], others) = g[i]
      BY <1>4, <2>2, <3>2 DEF t
    <3> QED  BY <2>1, <3>3, <3>4
  <2>3. CASE s[i] \notin some
    <3>1. f[i] = f[i - 1] /\ g[i] = g[i - 1]
      BY <1>3, <1>4, <2>3
    <3> QED  BY <2>1, <3>1
  <2> QED  BY <2>2, <2>3
<1>8. n \in Good
  <2> HIDE DEF Good
  <2>1. n \in 0 .. n
    BY <1>5
  <2> QED  BY <1>5, <1>6, <1>7, <2>1, UpTo
<1> QED  BY <1>1, <1>2, <1>8

(* All of a sequence is among what holds all of it.                        *)
LEMMA AmongAll ==
    ASSUME NEW T, NEW s \in Seq(T), NEW some, Range(s) \subseteq some
    PROVE  Among(s, some) = s
<1> DEFINE n == Len(s)
<1>1. PICK f : IsFilter(f, s, some) /\ Among(s, some) = f[n]
  BY AmongSteps
<1>2. n \in Nat /\ s \in [1 .. n -> T] /\ \A i \in 1 .. n : s[i] \in T /\ s[i] \in some
  BY DEF Range
<1>3. f[0] = <<>> /\ \A i \in 1 .. n : f[i] = Append(f[i - 1], s[i])
  BY <1>1, <1>2 DEF IsFilter
<1> HIDE DEF n
<1> DEFINE Good == {i \in 0 .. n : f[i] = [j \in 1 .. i |-> s[j]]}
<1>4. 0 \in Good
  <2>1. 0 \in 0 .. n /\ <<>> = [j \in 1 .. 0 |-> s[j]]
    BY <1>2
  <2> QED  BY <1>3, <2>1
<1>5. ASSUME NEW i \in 1 .. n, i - 1 \in Good PROVE i \in Good
  <2> DEFINE u == [j \in 1 .. i - 1 |-> s[j]]
             v == [j \in 1 .. i |-> s[j]]
  <2>1. f[i - 1] = u /\ f[i] = Append(f[i - 1], s[i])
    BY <1>3, <1>5
  <2>2. i - 1 \in Nat /\ i \in 0 .. n /\ \A j \in 1 .. i - 1 : j \in 1 .. n /\ j \in 1 .. i /\ j # i
    BY <1>2
  <2>3. u \in Seq(T) /\ Len(u) = i - 1 /\ v \in Seq(T) /\ Len(v) = i
    BY <1>2, <2>2
  <2>4. Append(u, s[i]) = v
    <3>1. Append(u, s[i]) \in Seq(T) /\ Len(Append(u, s[i])) = i
      BY <1>2, <2>2, <2>3
    <3>2. \A j \in 1 .. i : Append(u, s[i])[j] = v[j]
      BY <1>2, <2>2, <2>3
    <3> HIDE DEF u, v
    <3> QED  BY <2>3, <3>1, <3>2, SeqEqual
  <2> QED  BY <2>1, <2>2, <2>4
<1>6. n \in Good
  <2> HIDE DEF Good
  <2>1. n \in 0 .. n
    BY <1>2
  <2> QED  BY <1>2, <1>4, <1>5, <2>1, UpTo
<1>7. s = [j \in 1 .. n |-> s[j]]
  BY <1>2
<1> QED  BY <1>1, <1>6, <1>7
-----------------------------------------------------------------------------
(* Sequences put behind, into and out of others.                           *)

(* Names put behind others, none of which they are.                        *)
LEMMA ConcatFacts ==
    ASSUME NEW T, NEW s \in Seq(T), NEW t \in Seq(T)
    PROVE  /\ s \o t \in Seq(T)
           /\ \A x : x \in Range(s \o t) <=> x \in Range(s) \/ x \in Range(t)
           /\ IsInjective(s) /\ IsInjective(t) /\ Range(s) \cap Range(t) = {} => IsInjective(s \o t)
<1> DEFINE r == s \o t
           k == Len(s)
           l == Len(t)
<1>1. /\ r \in Seq(T) /\ k \in Nat /\ l \in Nat
      /\ DOMAIN s = 1 .. k /\ DOMAIN t = 1 .. l /\ DOMAIN r = 1 .. k + l
      /\ \A i \in 1 .. k + l : r[i] = IF i <= k THEN s[i] ELSE t[i - k]
  BY ConcatProperties, LenProperties
<1>2. Range(r) = Range(s) \cup Range(t)
  BY RangeConcatenation
<1> HIDE DEF r, k, l
<1>3. ASSUME IsInjective(s), IsInjective(t), Range(s) \cap Range(t) = {} PROVE IsInjective(r)
  <2>1. SUFFICES ASSUME NEW i \in 1 .. k + l, NEW j \in 1 .. k + l, r[i] = r[j] PROVE i = j
    BY <1>1 DEF IsInjective
  <2>2. /\ i \in Nat /\ j \in Nat
        /\ (i <= k => i \in DOMAIN s) /\ (~(i <= k) => i - k \in DOMAIN t)
        /\ (j <= k => j \in DOMAIN s) /\ (~(j <= k) => j - k \in DOMAIN t)
    BY <1>1
  <2>3. CASE i <= k /\ j <= k
    BY <1>1, <1>3, <2>1, <2>2, <2>3 DEF IsInjective
  <2>4. CASE ~(i <= k) /\ ~(j <= k)
    <3>1. t[i - k] = t[j - k]
      BY <1>1, <2>1, <2>4
    <3>2. i - k = j - k
      BY <1>3, <2>2, <2>4, <3>1 DEF IsInjective
    <3> QED  BY <1>1, <2>2, <3>2
  <2>5. CASE (i <= k) # (j <= k)
    <3>1. \A a \in DOMAIN s, b \in DOMAIN t : s[a] # t[b]
      BY <1>3 DEF Range
    <3> QED  BY <1>1, <2>1, <2>2, <2>5, <3>1
  <2> QED  BY <2>3, <2>4, <2>5
<1> QED  BY <1>1, <1>2, <1>3 DEF r

(* Sequences that share nothing, each without repetition.                  *)
Apart(ss) ==
    \A i \in DOMAIN ss :
        /\ IsInjective(ss[i])
        /\ \A j \in DOMAIN ss : i # j => Range(ss[i]) \cap Range(ss[j]) = {}

LEMMA FlattenSteps ==
    ASSUME NEW T, NEW ss \in Seq(Seq(T))
    PROVE  \E f : /\ f[0] = <<>> /\ \A i \in 1 .. Len(ss) : f[i] = f[i - 1] \o ss[i]
                  /\ FlattenSeq(ss) = f[Len(ss)]
<1> DEFINE n == Len(ss)
           Rule(f) == [i \in 1 .. n |-> IF i = 1 THEN ss[i] ELSE f[i - 1] \o ss[i]]
           flatten == CHOOSE f : f = Rule(f)
<1>1. FlattenSeq(ss) = IF n = 0 THEN ss ELSE flatten[n]
  BY DEF FlattenSeq
<1>2. n \in Nat /\ DOMAIN ss = 1 .. n /\ (\A i \in 1 .. n : ss[i] \in Seq(T)) /\ (n = 0 => ss = <<>>)
  BY EmptySeq
<1>3. flatten = Rule(flatten)
  <2> DEFINE F == [i \in 1 .. n |-> [r \in Seq(T) |-> r \o ss[i]]]
  <2>1. F \in [1 .. n -> [Seq(T) -> Seq(T)]]
    <3>1. \A i \in 1 .. n : \A r \in Seq(T) : r \o ss[i] \in Seq(T)
      BY <1>2, ConcatProperties
    <3> HIDE DEF n
    <3> QED  BY <3>1
  <2>2. PICK g : IsRun(g, n, Seq(T), <<>>, F)
    <3>1. IsStep(F, n, Seq(T)) /\ <<>> \in Seq(T)
      BY <2>1 DEF IsStep
    <3> HIDE DEF F, n
    <3> QED  BY <1>2, <3>1, Recursion
  <2>3. ASSUME NEW i \in 1 .. n PROVE g[i] = g[i - 1] \o ss[i] /\ (i = 1 => g[i] = ss[i])
    <3>0. i - 1 \in 0 .. n
      <4> HIDE DEF n
      <4> QED  BY <1>2
    <3>1. g[i - 1] \in Seq(T)
      BY <2>2, <3>0 DEF IsRun
    <3>2. g[i] = g[i - 1] \o ss[i]
      BY <2>2, <3>1 DEF IsRun
    <3>3. i = 1 => g[i] = <<>> \o ss[i]
      <4>1. i = 1 => i - 1 = 0
        OBVIOUS
      <4> QED  BY <2>2, <3>2, <4>1 DEF IsRun
    <3> QED  BY <1>2, <3>2, <3>3, ConcatEmptySeq
  <2> DEFINE h == [i \in 1 .. n |-> g[i]]
  <2>4. h = Rule(h)
    <3> HIDE DEF n, F
    <3>1. \A i \in 1 .. n : i = 1 \/ i - 1 \in 1 .. n
      BY <1>2
    <3>2. \A i \in 1 .. n : h[i] = Rule(h)[i]
      BY <2>3, <3>1
    <3> HIDE DEF h
    <3>3. h = [i \in 1 .. n |-> h[i]]
      BY DEF h
    <3> QED  BY <3>2, <3>3
  <2> HIDE DEF Rule, h
  <2> QED  BY <2>4
<1>4. \A i \in 1 .. n : flatten[i] = IF i = 1 THEN ss[i] ELSE flatten[i - 1] \o ss[i]
  <2>1. \A i \in 1 .. n : flatten[i] = Rule(flatten)[i]
    BY <1>3
  <2> HIDE DEF flatten
  <2> QED  BY <2>1
<1> HIDE DEF flatten, Rule
<1> DEFINE f == [i \in 0 .. n |-> IF i = 0 THEN <<>> ELSE flatten[i]]
<1>5. f[0] = <<>> /\ \A i \in 1 .. n : f[i] = flatten[i]
  <2> HIDE DEF n
  <2>1. 0 \in 0 .. n /\ \A i \in 1 .. n : i \in 0 .. n /\ i # 0
    BY <1>2
  <2> QED  BY <2>1
<1> HIDE DEF f
<1>6. ASSUME NEW i \in 1 .. n PROVE f[i] = f[i - 1] \o ss[i]
  <2>1. CASE i = 1
    <3>1. f[i] = ss[i] /\ f[i - 1] = <<>>
      <4>1. i - 1 = 0
        BY <2>1
      <4> QED  BY <1>4, <1>5, <2>1, <4>1
    <3> QED  BY <1>2, <3>1, ConcatEmptySeq
  <2>2. CASE i # 1
    <3>1. i - 1 \in 1 .. n
      <4> HIDE DEF n
      <4> QED  BY <1>2, <2>2
    <3> QED  BY <1>4, <1>5, <2>2, <3>1
  <2> QED  BY <2>1, <2>2
<1>7. FlattenSeq(ss) = f[n]
  <2>1. CASE n = 0
    BY <1>1, <1>2, <1>5, <2>1
  <2>2. CASE n # 0
    <3>1. n \in 1 .. n
      <4> HIDE DEF n
      <4> QED  BY <1>2, <2>2
    <3> QED  BY <1>1, <1>5, <2>2, <3>1
  <2> QED  BY <2>1, <2>2
<1> QED  BY <1>5, <1>6, <1>7

(* What comes of sequences one after the other.                            *)
LEMMA FlattenFacts ==
    ASSUME NEW T, NEW ss \in Seq(Seq(T))
    PROVE  /\ FlattenSeq(ss) \in Seq(T)
           /\ \A x : x \in Range(FlattenSeq(ss)) <=> \E i \in DOMAIN ss : x \in Range(ss[i])
           /\ Apart(ss) => IsInjective(FlattenSeq(ss))
<1> DEFINE n == Len(ss)
<1>1. PICK f : /\ f[0] = <<>> /\ \A i \in 1 .. n : f[i] = f[i - 1] \o ss[i]
               /\ FlattenSeq(ss) = f[n]
  BY FlattenSteps
<1>2. n \in Nat /\ DOMAIN ss = 1 .. n /\ \A i \in 1 .. n : ss[i] \in Seq(T)
  OBVIOUS
<1> HIDE DEF n
<1> DEFINE Good == {i \in 0 .. n :
                      /\ f[i] \in Seq(T)
                      /\ \A x : x \in Range(f[i]) <=> \E j \in 1 .. i : x \in Range(ss[j])
                      /\ Apart(ss) => IsInjective(f[i])}
<1>3. 0 \in Good
  <2>1. /\ <<>> \in Seq(T) /\ DOMAIN <<>> = {} /\ Range(<<>>) = {} /\ IsInjective(<<>>)
        /\ 0 \in 0 .. n /\ 1 .. 0 = {}
    BY <1>2 DEF Range, IsInjective
  <2> QED  BY <1>1, <2>1
<1>4. ASSUME NEW i \in 1 .. n, i - 1 \in Good PROVE i \in Good
  <2> DEFINE u == f[i - 1]
             t == ss[i]
             v == f[i]
  <2>1. /\ u \in Seq(T) /\ (Apart(ss) => IsInjective(u))
        /\ \A x : x \in Range(u) <=> \E j \in 1 .. i - 1 : x \in Range(ss[j])
    BY <1>4
  <2>2. /\ i \in 0 .. n /\ i \in 1 .. i /\ t \in Seq(T)
        /\ \A j \in 1 .. i - 1 : j \in 1 .. i /\ j \in 1 .. n /\ j # i
        /\ \A j \in 1 .. i : j = i \/ j \in 1 .. i - 1
    BY <1>2
  <2>3. v = u \o t
    BY <1>1
  <2>4. Apart(ss) => IsInjective(t) /\ \A j \in 1 .. i - 1 : Range(ss[j]) \cap Range(t) = {}
    BY <1>2, <2>2 DEF Apart
  <2> HIDE DEF u, v
  <2>5. \A x : x \in Range(u) => x \notin Range(t) \/ ~Apart(ss)
    BY <2>1, <2>4
  <2>10. \A x : x \in Range(t) <=> x \in Range(ss[i])
    OBVIOUS
  <2> HIDE DEF t
  <2>6. v \in Seq(T) /\ \A x : x \in Range(v) <=> x \in Range(u) \/ x \in Range(t)
    BY <2>1, <2>2, <2>3, ConcatFacts
  <2>7. Apart(ss) => IsInjective(v)
    <3>1. SUFFICES ASSUME Apart(ss) PROVE IsInjective(v)
      OBVIOUS
    <3>2. Range(u) \cap Range(t) = {}
      BY <2>5, <3>1
    <3> QED  BY <2>1, <2>2, <2>3, <2>4, <3>1, <3>2, ConcatFacts
  <2>8. \A x : x \in Range(v) <=> \E j \in 1 .. i : x \in Range(ss[j])
    BY <2>1, <2>2, <2>6, <2>10
  <2> QED  BY <2>2, <2>6, <2>7, <2>8 DEF v
<1>5. n \in Good
  <2> HIDE DEF Good
  <2>1. n \in 0 .. n
    BY <1>2
  <2> QED  BY <1>2, <1>3, <1>4, <2>1, UpTo
<1> QED  BY <1>1, <1>2, <1>5

(* r is s with e put in at pos. *)
HasIn(r, s, pos, e) ==
    /\ Len(r) = Len(s) + 1
    /\ \A i \in 1 .. Len(s) + 1 : r[i] = IF i < pos THEN s[i] ELSE IF i = pos THEN e ELSE s[i - 1]

LEMMA InsertAtFacts ==
    ASSUME NEW T, NEW s \in Seq(T), NEW pos \in 1 .. Len(s) + 1, NEW e \in T
    PROVE  InsertAt(s, pos, e) \in Seq(T) /\ HasIn(InsertAt(s, pos, e), s, pos, e)
<1> DEFINE n == Len(s)
           a == SubSeq(s, 1, pos - 1)
           z == SubSeq(s, pos, n)
           r == (a \o <<e>>) \o z
<1>1. n \in Nat /\ \A i \in 1 .. n : s[i] \in T
  OBVIOUS
<1>2. InsertAt(s, pos, e) = r
  BY DEF InsertAt
<1>3. a \in Seq(T) /\ Len(a) = pos - 1 /\ \A i \in 1 .. pos - 1 : a[i] = s[i]
  BY <1>1, SubSeqProperties
<1>4. z \in Seq(T) /\ Len(z) = n + 1 - pos /\ \A i \in 1 .. n + 1 - pos : z[i] = s[pos + i - 1]
  BY <1>1, SubSeqProperties
<1>5. <<e>> \in Seq(T) /\ Len(<<e>>) = 1 /\ <<e>>[1] = e
  OBVIOUS
<1> HIDE DEF a, z
<1> DEFINE b == a \o <<e>>
<1>6. b \in Seq(T) /\ Len(b) = pos /\ \A i \in 1 .. pos : b[i] = IF i < pos THEN s[i] ELSE e
  <2>1. /\ b \in Seq(T) /\ Len(b) = Len(a) + Len(<<e>>)
        /\ \A i \in 1 .. Len(a) + Len(<<e>>) : b[i] = IF i <= Len(a) THEN a[i] ELSE <<e>>[i - Len(a)]
    BY <1>3, <1>5, ConcatProperties
  <2> HIDE DEF b
  <2> QED  BY <1>1, <1>3, <1>5, <2>1
<1> HIDE DEF b
<1>7. /\ b \o z \in Seq(T) /\ Len(b \o z) = Len(b) + Len(z)
      /\ \A i \in 1 .. Len(b) + Len(z) : (b \o z)[i] = IF i <= Len(b) THEN b[i] ELSE z[i - Len(b)]
  BY <1>4, <1>6, ConcatProperties
<1>8. r = b \o z
  BY DEF b
<1> HIDE DEF r, n
<1>9. Len(r) = n + 1
  BY <1>1, <1>4, <1>6, <1>7, <1>8
<1>10. ASSUME NEW i \in 1 .. n + 1
       PROVE  r[i] = IF i < pos THEN s[i] ELSE IF i = pos THEN e ELSE s[i - 1]
  <2>0. pos \in 1 .. n + 1
    BY DEF n
  <2>1. r[i] = IF i <= pos THEN b[i] ELSE z[i - pos]
    <3>1. i \in 1 .. Len(b) + Len(z) /\ Len(b) = pos
      BY <1>1, <1>4, <1>6, <2>0
    <3> QED  BY <1>7, <1>8, <3>1
  <2>2. i > pos => z[i - pos] = s[i - 1]
    <3>1. i > pos => i - pos \in 1 .. n + 1 - pos /\ pos + (i - pos) - 1 = i - 1
      BY <1>1, <2>0
    <3> QED  BY <1>4, <3>1
  <2> QED  BY <1>1, <1>6, <2>0, <2>1, <2>2
<1> QED  BY <1>2, <1>7, <1>8, <1>9, <1>10 DEF n, HasIn

LEMMA RemoveAtFacts ==
    ASSUME NEW T, NEW s \in Seq(T), NEW from \in 1 .. Len(s)
    PROVE  /\ RemoveAt(s, from) \in Seq(T) /\ Len(RemoveAt(s, from)) = Len(s) - 1
           /\ \A i \in 1 .. Len(s) - 1 : RemoveAt(s, from)[i] = IF i < from THEN s[i] ELSE s[i + 1]
<1> DEFINE n == Len(s)
           a == SubSeq(s, 1, from - 1)
           z == SubSeq(s, from + 1, n)
           r == a \o z
<1>1. n \in Nat /\ \A i \in 1 .. n : s[i] \in T
  OBVIOUS
<1>2. RemoveAt(s, from) = r
  BY DEF RemoveAt
<1>3. a \in Seq(T) /\ Len(a) = from - 1 /\ \A i \in 1 .. from - 1 : a[i] = s[i]
  BY <1>1, SubSeqProperties
<1>4. z \in Seq(T) /\ Len(z) = n - from /\ \A i \in 1 .. n - from : z[i] = s[from + 1 + i - 1]
  BY <1>1, SubSeqProperties
<1> HIDE DEF a, z
<1>5. /\ r \in Seq(T) /\ Len(r) = Len(a) + Len(z)
      /\ \A i \in 1 .. Len(a) + Len(z) : r[i] = IF i <= Len(a) THEN a[i] ELSE z[i - Len(a)]
  BY <1>3, <1>4, ConcatProperties
<1> HIDE DEF r, n
<1>6. from \in 1 .. n
  BY DEF n
<1>7. Len(r) = n - 1
  BY <1>1, <1>3, <1>4, <1>5, <1>6
<1>8. ASSUME NEW i \in 1 .. n - 1 PROVE r[i] = IF i < from THEN s[i] ELSE s[i + 1]
  <2>1. r[i] = IF i < from THEN a[i] ELSE z[i - (from - 1)]
    BY <1>1, <1>3, <1>4, <1>5, <1>6
  <2>2. ~(i < from) => z[i - (from - 1)] = s[i + 1]
    <3>1. ~(i < from) => i - (from - 1) \in 1 .. n - from /\ from + 1 + (i - (from - 1)) - 1 = i + 1
      BY <1>1, <1>6
    <3> QED  BY <1>4, <3>1
  <2> QED  BY <1>1, <1>3, <1>6, <2>1, <2>2
<1> QED  BY <1>2, <1>5, <1>7, <1>8 DEF n

(* A name put in anywhere.                                                 *)
LEMMA InsertedFacts ==
    ASSUME NEW T, NEW s \in Seq(T), NEW pos \in 1 .. Len(s) + 1, NEW e \in T,
           IsInjective(s), e \notin Range(s)
    PROVE  LET r == InsertAt(s, pos, e)
           IN r \in Seq(T) /\ IsInjective(r) /\ \A x : x \in Range(r) <=> x \in Range(s) \/ x = e
<1> DEFINE n == Len(s)
           r == InsertAt(s, pos, e)
<1>1. /\ r \in Seq(T) /\ Len(r) = n + 1
      /\ \A i \in 1 .. n + 1 : r[i] = IF i < pos THEN s[i] ELSE IF i = pos THEN e ELSE s[i - 1]
  <2> HIDE DEF r
  <2>1. r \in Seq(T) /\ HasIn(r, s, pos, e)
    BY InsertAtFacts DEF r
  <2> QED  BY <2>1 DEF HasIn
<1>2. /\ n \in Nat /\ DOMAIN s = 1 .. n /\ DOMAIN r = 1 .. n + 1 /\ pos \in 1 .. n + 1
  BY <1>1
<1> HIDE DEF r, n
<1> DEFINE Old(i) == IF i < pos THEN i ELSE i - 1
<1>3. /\ r[pos] = e
      /\ \A i \in 1 .. n + 1 : i # pos => Old(i) \in 1 .. n /\ r[i] = s[Old(i)]
      /\ \A i, j \in 1 .. n + 1 : i # pos /\ j # pos /\ Old(i) = Old(j) => i = j
  BY <1>1, <1>2
<1>4. \A k \in 1 .. n : \E i \in 1 .. n + 1 : i # pos /\ Old(i) = k
  <2>1. SUFFICES ASSUME NEW k \in 1 .. n
                 PROVE  \E i \in 1 .. n + 1 : i # pos /\ Old(i) = k
    OBVIOUS
  <2>2. CASE k < pos
    <3>1. k \in 1 .. n + 1 /\ k # pos /\ Old(k) = k
      BY <1>2, <2>2
    <3> QED  BY <3>1
  <2>3. CASE ~(k < pos)
    <3>1. k + 1 \in 1 .. n + 1 /\ k + 1 # pos /\ Old(k + 1) = k
      BY <1>2, <2>3
    <3> QED  BY <3>1
  <2> QED  BY <2>2, <2>3
<1> HIDE DEF Old
<1>5. \A i \in 1 .. n + 1 : i # pos => r[i] \in Range(s)
  BY <1>2, <1>3 DEF Range
<1>6. IsInjective(r)
  <2>1. SUFFICES ASSUME NEW i \in 1 .. n + 1, NEW j \in 1 .. n + 1, r[i] = r[j] PROVE i = j
    BY <1>2 DEF IsInjective
  <2>2. CASE i = pos \/ j = pos
    BY <1>3, <1>5, <2>1, <2>2
  <2>3. CASE i # pos /\ j # pos
    <3>1. Old(i) \in 1 .. n /\ Old(j) \in 1 .. n /\ s[Old(i)] = s[Old(j)]
      BY <1>3, <2>1, <2>3
    <3>2. Old(i) = Old(j)
      BY <1>2, <3>1 DEF IsInjective
    <3> QED  BY <1>3, <2>3, <3>2
  <2> QED  BY <2>2, <2>3
<1>7. \A x : x \in Range(r) <=> x \in Range(s) \/ x = e
  <2>1. \A x : x \in Range(r) => x \in Range(s) \/ x = e
    BY <1>2, <1>3, <1>5 DEF Range
  <2>2. ASSUME NEW k \in 1 .. n PROVE s[k] \in Range(r)
    <3>1. PICK i \in 1 .. n + 1 : i # pos /\ Old(i) = k
      BY <1>4
    <3>2. r[i] = s[k]
      BY <1>3, <3>1
    <3> QED  BY <1>2, <3>2 DEF Range
  <2>3. e \in Range(r)
    BY <1>2, <1>3 DEF Range
  <2> QED  BY <1>2, <2>1, <2>2, <2>3 DEF Range
<1> QED  BY <1>1, <1>6, <1>7 DEF r

(* Shifting an element rearranges.                                         *)
Rearranged(s, r) ==
    \E f \in [DOMAIN s -> DOMAIN s] :
        /\ \A i \in DOMAIN s : r[i] = s[f[i]]
        /\ \A i, j \in DOMAIN s : f[i] = f[j] => i = j
        /\ \A k \in DOMAIN s : \E i \in DOMAIN s : f[i] = k

(* The elements but one keep their order. *)
KeepsOrder(s, r, from) ==
    \A i, j \in DOMAIN s :
        i < j /\ i # from /\ j # from => \E k, l \in DOMAIN s : k < l /\ r[k] = s[i] /\ r[l] = s[j]

LEMMA ShiftedFacts ==
    ASSUME NEW T, NEW s \in Seq(T), NEW from \in 1 .. Len(s), NEW to \in Int
    PROVE  LET r == Shifted(s, from, to)
           IN /\ r \in Seq(T) /\ DOMAIN r = DOMAIN s /\ Rearranged(s, r)
              /\ KeepsOrder(s, r, from)
<1> DEFINE n == Len(s)
           k == Clamp(to, 1, n)
           t == RemoveAt(s, from)
           r == InsertAt(t, k, s[from])
<1>1. n \in Nat /\ DOMAIN s = 1 .. n /\ from \in 1 .. n /\ s[from] \in T
  OBVIOUS
<1>2. /\ t \in Seq(T) /\ Len(t) = n - 1
      /\ \A i \in 1 .. n - 1 : t[i] = IF i < from THEN s[i] ELSE s[i + 1]
  BY RemoveAtFacts
<1>3. Shifted(s, from, to) = r
  BY DEF Shifted
<1> HIDE DEF t, n
<1>4. k \in 1 .. n
  BY <1>1 DEF Clamp
<1> HIDE DEF k
<1>5. /\ r \in Seq(T) /\ Len(r) = n
      /\ \A i \in 1 .. n : r[i] = IF i < k THEN t[i] ELSE IF i = k THEN s[from] ELSE t[i - 1]
  <2>1. Len(t) + 1 = n /\ k \in 1 .. Len(t) + 1
    BY <1>1, <1>2, <1>4
  <2> HIDE DEF r
  <2>2. r \in Seq(T) /\ HasIn(r, t, k, s[from])
    BY <1>1, <1>2, <2>1, InsertAtFacts DEF r
  <2> QED  BY <2>1, <2>2 DEF HasIn
<1> HIDE DEF r
<1> DEFINE f == [i \in 1 .. n |->
                   IF i = k THEN from
                   ELSE IF i < k THEN (IF i < from THEN i ELSE i + 1)
                   ELSE (IF i <= from THEN i - 1 ELSE i)]
<1>6. ASSUME NEW i \in 1 .. n PROVE f[i] \in 1 .. n /\ r[i] = s[f[i]]
  <2>0. f[i] = IF i = k THEN from
               ELSE IF i < k THEN (IF i < from THEN i ELSE i + 1)
               ELSE (IF i <= from THEN i - 1 ELSE i)
    OBVIOUS
  <2> HIDE DEF f
  <2>1. CASE i = k
    BY <1>1, <1>5, <2>0, <2>1
  <2>2. CASE i < k
    <3>1. i \in 1 .. n - 1
      BY <1>1, <1>4, <2>2
    <3>2. r[i] = IF i < from THEN s[i] ELSE s[i + 1]
      BY <1>2, <1>5, <2>2, <3>1
    <3> QED  BY <1>1, <1>4, <2>0, <2>2, <3>1, <3>2
  <2>3. CASE i > k
    <3>1. i - 1 \in 1 .. n - 1 /\ (i - 1) + 1 = i
      BY <1>1, <1>4, <2>3
    <3>2. ~(i < k) /\ i # k
      BY <1>4, <2>3
    <3>3. r[i] = t[i - 1]
      BY <1>5, <3>2
    <3>4. t[i - 1] = IF i - 1 < from THEN s[i - 1] ELSE s[(i - 1) + 1]
      BY <1>2, <3>1
    <3>5. i - 1 < from <=> i <= from
      BY <1>1
    <3>6. CASE i <= from
      <4>1. f[i] = i - 1 /\ r[i] = s[i - 1]
        BY <2>0, <3>2, <3>3, <3>4, <3>5, <3>6
      <4>2. i - 1 \in 1 .. n
        BY <1>1, <3>1
      <4> QED  BY <4>1, <4>2
    <3>7. CASE ~(i <= from)
      <4>1. f[i] = i /\ r[i] = s[(i - 1) + 1]
        BY <2>0, <3>2, <3>3, <3>4, <3>5, <3>7
      <4> QED  BY <3>1, <4>1
    <3> QED  BY <3>6, <3>7
  <2>4. i = k \/ i < k \/ i > k
    BY <1>4
  <2> QED  BY <2>1, <2>2, <2>3, <2>4
<1>7. \A i, j \in 1 .. n : f[i] = f[j] => i = j
  BY <1>1, <1>4
<1>8. ASSUME NEW h \in 1 .. n PROVE \E i \in 1 .. n : f[i] = h
  <2> DEFINE g == IF h = from THEN k
                  ELSE IF h < from THEN (IF h < k THEN h ELSE h + 1)
                  ELSE (IF h <= k THEN h - 1 ELSE h)
  <2>1. g \in 1 .. n /\ f[g] = h
    BY <1>1, <1>4
  <2> QED  BY <2>1
<1>9. f \in [1 .. n -> 1 .. n]
  BY <1>6
<1>12. \A a, b \in 1 .. n : f[a] < f[b] /\ f[a] # from /\ f[b] # from => a < b
  BY <1>1, <1>4
<1> HIDE DEF f
<1>13. ASSUME NEW i \in DOMAIN s, NEW j \in DOMAIN s, i < j, i # from, j # from
       PROVE  \E a, b \in DOMAIN s : a < b /\ r[a] = s[i] /\ r[b] = s[j]
  <2>1. PICK a, b \in 1 .. n : f[a] = i /\ f[b] = j
    BY <1>1, <1>8
  <2>2. a < b
    BY <1>12, <1>13, <2>1
  <2> QED  BY <1>1, <1>6, <2>1, <2>2
<1>10. Rearranged(s, r)
  <2>1. /\ f \in [DOMAIN s -> DOMAIN s]
        /\ \A i \in DOMAIN s : r[i] = s[f[i]]
        /\ \A i, j \in DOMAIN s : f[i] = f[j] => i = j
    BY <1>1, <1>6, <1>7, <1>9
  <2>2. \A h \in DOMAIN s : \E i \in DOMAIN s : f[i] = h
    BY <1>1, <1>8
  <2> QED  BY <2>1, <2>2 DEF Rearranged
<1>11. DOMAIN r = 1 .. n
  BY <1>5
<1>14. KeepsOrder(s, r, from)
  BY <1>13 DEF KeepsOrder
<1> QED  BY <1>1, <1>3, <1>5, <1>10, <1>11, <1>14

LEMMA RearrangedFacts ==
    ASSUME NEW T, NEW s \in Seq(T), NEW r \in Seq(T), DOMAIN r = DOMAIN s, Rearranged(s, r)
    PROVE  /\ \A x : x \in Range(r) <=> x \in Range(s)
           /\ IsInjective(s) => IsInjective(r)
<1>1. PICK f \in [DOMAIN s -> DOMAIN s] :
        /\ \A i \in DOMAIN s : r[i] = s[f[i]]
        /\ \A i, j \in DOMAIN s : f[i] = f[j] => i = j
        /\ \A k \in DOMAIN s : \E i \in DOMAIN s : f[i] = k
  BY DEF Rearranged
<1>2. \A x : x \in Range(r) <=> x \in Range(s)
  BY <1>1 DEF Range
<1>3. IsInjective(s) => IsInjective(r)
  BY <1>1 DEF IsInjective
<1> QED  BY <1>2, <1>3
-----------------------------------------------------------------------------
(* The settings and the rows of the sidebar.                               *)

Configs ==
    [order : Seq(Names), group : [Names -> Groups \cup {Nobody}],
     marked : SUBSET Names, groups : SUBSET Groups]

(* Typed, each name at most once in the order, and whoever is in a group   *)
(* is in one that is there.                                                *)
SettingsOK(c) ==
    /\ c \in Configs /\ IsInjective(c.order)
    /\ \A n \in Names : c.group[n] # Nobody => c.group[n] \in c.groups

(* And nobody is missing from a group that is there. *)
Tidy(c) == SettingsOK(c) /\ \A id \in c.groups : \E n \in Names : c.group[n] = id

(* s has everybody of all, once.                                           *)
Lists(s, all) == s \in Seq(Names) /\ IsInjective(s) /\ \A x : x \in Range(s) <=> x \in all

Slots == [id : Groups \cup {Nobody}, names : Seq(Names)]

NamesOf(slots) == [i \in DOMAIN slots |-> slots[i].names]

(* Everybody of all is in one of the rows, once.                           *)
Rows(slots, all) ==
    /\ slots \in Seq(Slots) /\ Apart(NamesOf(slots))
    /\ \A x : x \in all <=> \E i \in DOMAIN slots : x \in Range(slots[i].names)

(* Two who are in one row: one and the same, or of one group. *)
Together(g, x, y) == x = y \/ (g[x] = g[y] /\ g[x] # Nobody)

(* A row has those of one group, and there is one row of a group.          *)
Classes(slots, g) ==
    \A i \in DOMAIN slots :
        /\ \A x, y \in Range(slots[i].names) : g[x] = slots[i].id /\ Together(g, x, y)
        /\ \A j \in DOMAIN slots : slots[i].id = slots[j].id /\ slots[i].id # Nobody => i = j

LEMMA NobodyElse == Nobody \notin Groups /\ MaxName \in Nat /\ Names = 1 .. MaxName
  BY ConfigsAssumption DEF Nobody, Groups, Names

LEMMA SortedLists == ASSUME NEW some \in SUBSET Names PROVE Lists(Sorted(some), some)
<1> DEFINE s == [i \in Names |-> i]
<1>1. s \in Seq(Names) /\ IsInjective(s) /\ \A x : x \in Range(s) <=> x \in Names
  BY NobodyElse DEF Range, IsInjective
<1>2. Sorted(some) = Among(s, some)
  BY DEF Sorted
<1> HIDE DEF s
<1> QED  BY <1>1, <1>2, AmongFacts DEF Lists

LEMMA OrderedLists ==
    ASSUME NEW c, SettingsOK(c), NEW all \in SUBSET Names
    PROVE  Lists(Ordered(c, all), all)
<1> DEFINE s == Among(c.order, all)
           left == all \ Range(c.order)
           t == Sorted(left)
<1>1. c.order \in Seq(Names) /\ IsInjective(c.order)
  BY DEF SettingsOK, Configs
<1>2. /\ s \in Seq(Names) /\ IsInjective(s)
      /\ \A x : x \in Range(s) <=> x \in Range(c.order) /\ x \in all
  BY <1>1, AmongFacts
<1>3. Lists(t, left)
  BY SortedLists
<1>4. Ordered(c, all) = s \o t
  BY DEF Ordered
<1> HIDE DEF s, t
<1>5. Range(s) \cap Range(t) = {}
  BY <1>2, <1>3 DEF Lists
<1>6. /\ s \o t \in Seq(Names) /\ IsInjective(s \o t)
      /\ \A x : x \in Range(s \o t) <=> x \in Range(s) \/ x \in Range(t)
  BY <1>2, <1>3, <1>5, ConcatFacts DEF Lists
<1>7. \A x : x \in Range(s \o t) <=> x \in all
  BY <1>2, <1>3, <1>6 DEF Lists
<1> QED  BY <1>4, <1>6, <1>7 DEF Lists

(* The rows of the sidebar show everybody who is there, once.              *)
LEMMA LayoutRows ==
    ASSUME NEW c, SettingsOK(c), NEW all \in SUBSET Names
    PROVE  Rows(Layout(c, all), all) /\ Classes(Layout(c, all), c.group)
<1> DEFINE ordered == Ordered(c, all)
           G(n) == GroupOf(c, n)
           Members(id) == Among(ordered, {n \in all : G(n) = id})
           first == {n \in all : G(n) # Nobody => n = Members(G(n))[1]}
           heads == Among(ordered, first)
           row == [i \in DOMAIN heads |->
                     LET id == G(heads[i])
                     IN [id |-> id, names |-> IF id = Nobody THEN <<heads[i]>> ELSE Members(id)]]
<1>1. Layout(c, all) = row
  BY DEF Layout
<1>2. ordered \in Seq(Names) /\ IsInjective(ordered) /\ \A x : x \in Range(ordered) <=> x \in all
  BY OrderedLists DEF Lists
<1>3. \A n \in Names : G(n) \in Groups \cup {Nobody}
  BY DEF GroupOf, SettingsOK, Configs
<1> HIDE DEF ordered, G
<1>4. ASSUME NEW id
      PROVE  /\ Members(id) \in Seq(Names) /\ IsInjective(Members(id))
             /\ \A x : x \in Range(Members(id)) <=> x \in all /\ G(x) = id
  BY <1>2, AmongFacts
<1>5. heads \in Seq(Names) /\ IsInjective(heads) /\ \A x : x \in Range(heads) <=> x \in first
  <2> HIDE DEF first
  <2>1. heads \in Seq(Names) /\ IsInjective(heads) /\ \A x : x \in Range(heads) <=> x \in Range(ordered) /\ x \in first
    BY <1>2, AmongFacts
  <2>2. first \subseteq all
    BY DEF first
  <2> QED  BY <1>2, <2>1, <2>2
<1> HIDE DEF Members, heads
<1>6. DOMAIN heads = 1 .. Len(heads) /\ Len(heads) \in Nat /\ \A i \in DOMAIN heads : heads[i] \in first
  BY <1>5 DEF Range
<1>7. ASSUME NEW i \in DOMAIN heads
      PROVE  /\ row[i].id = G(heads[i])
             /\ row[i].names = IF G(heads[i]) = Nobody THEN <<heads[i]>> ELSE Members(G(heads[i]))
             /\ row[i] \in Slots
  <2>1. heads[i] \in Names /\ G(heads[i]) \in Groups \cup {Nobody}
    BY <1>3, <1>6
  <2>2. <<heads[i]>> \in Seq(Names) /\ Members(G(heads[i])) \in Seq(Names)
    BY <1>4, <2>1
  <2> QED  BY <2>1, <2>2 DEF Slots
<1>8. row \in Seq(Slots) /\ DOMAIN row = DOMAIN heads
  <2>1. row = [i \in 1 .. Len(heads) |-> row[i]] /\ DOMAIN row = 1 .. Len(heads)
    BY <1>6
  <2>2. \A i \in 1 .. Len(heads) : row[i] \in Slots
    BY <1>6, <1>7
  <2> HIDE DEF row
  <2>3. row \in [1 .. Len(heads) -> Slots]
    BY <2>1, <2>2
  <2> QED  BY <1>6, <2>1, <2>3
<1> HIDE DEF row
<1>9. ASSUME NEW i \in DOMAIN heads
      PROVE  /\ IsInjective(row[i].names)
             /\ \A x : x \in Range(row[i].names)
                         <=> x \in all /\ G(x) = G(heads[i]) /\ (G(x) = Nobody => x = heads[i])
  <2>1. heads[i] \in all
    BY <1>6
  <2>2. CASE G(heads[i]) = Nobody
    <3>1. row[i].names = <<heads[i]>>
      BY <1>7, <2>2
    <3>2. IsInjective(row[i].names) /\ \A x : x \in Range(row[i].names) <=> x = heads[i]
      BY <3>1 DEF Range, IsInjective
    <3> QED  BY <2>1, <2>2, <3>2
  <2>3. CASE G(heads[i]) # Nobody
    BY <1>4, <1>7, <2>3
  <2> QED  BY <2>2, <2>3
<1>10. ASSUME NEW i \in DOMAIN heads, NEW j \in DOMAIN heads, G(heads[i]) = G(heads[j]),
              G(heads[i]) = Nobody => heads[i] = heads[j]
       PROVE  i = j
  <2>1. heads[i] = heads[j]
    BY <1>6, <1>10
  <2> QED  BY <1>5, <2>1 DEF IsInjective
<1>11. Apart(NamesOf(row))
  <2>1. ASSUME NEW i \in DOMAIN row, NEW j \in DOMAIN row, i # j
        PROVE  Range(row[i].names) \cap Range(row[j].names) = {}
    BY <1>8, <1>9, <1>10, <2>1
  <2> QED  BY <1>8, <1>9, <2>1 DEF Apart, NamesOf
<1>12. ASSUME NEW x \in all PROVE \E i \in DOMAIN row : x \in Range(row[i].names)
  <2>1. CASE G(x) = Nobody
    <3>1. x \in Range(heads)
      BY <1>5, <2>1
    <3>2. PICK i \in DOMAIN heads : heads[i] = x
      BY <3>1 DEF Range
    <3> QED  BY <1>8, <1>9, <2>1, <3>2
  <2>2. CASE G(x) # Nobody
    <3> DEFINE m == Members(G(x))
               h == m[1]
    <3>1. m \in Seq(Names) /\ x \in Range(m)
      BY <1>4
    <3>2. h \in Range(m)
      <4> HIDE DEF m
      <4>1. 1 \in DOMAIN m
        BY <3>1 DEF Range
      <4> QED  BY <4>1 DEF Range
    <3>3. h \in all /\ G(h) = G(x)
      BY <1>4, <3>2
    <3>4. h \in Range(heads)
      BY <1>5, <3>3
    <3> HIDE DEF h
    <3>5. PICK i \in DOMAIN heads : heads[i] = h
      BY <3>4 DEF Range
    <3> QED  BY <1>8, <1>9, <2>2, <3>3, <3>5
  <2> QED  BY <2>1, <2>2
<1>13. \A x \in all : G(x) = c.group[x]
  BY DEF G, GroupOf, SettingsOK, Configs
<1>14. Classes(row, c.group)
  <2>1. ASSUME NEW i \in DOMAIN row, NEW x \in Range(row[i].names), NEW y \in Range(row[i].names)
        PROVE  c.group[x] = row[i].id /\ Together(c.group, x, y)
    <3>1. G(x) = row[i].id /\ G(y) = row[i].id /\ x \in all /\ y \in all /\ (row[i].id = Nobody => x = y)
      <4>1. i \in DOMAIN heads /\ row[i].id = G(heads[i])
        BY <1>7, <1>8
      <4>2. /\ x \in all /\ G(x) = G(heads[i]) /\ (G(x) = Nobody => x = heads[i])
            /\ y \in all /\ G(y) = G(heads[i]) /\ (G(y) = Nobody => y = heads[i])
        BY <1>9, <4>1
      <4> QED  BY <4>1, <4>2
    <3> QED  BY <1>13, <3>1 DEF Together
  <2>2. ASSUME NEW i \in DOMAIN row, NEW j \in DOMAIN row, row[i].id = row[j].id, row[i].id # Nobody
        PROVE  i = j
    BY <1>7, <1>8, <1>10, <2>2
  <2> QED  BY <2>1, <2>2 DEF Classes
<1> QED  BY <1>1, <1>8, <1>9, <1>11, <1>12, <1>14 DEF Rows

LEMMA FlatLists ==
    ASSUME NEW slots, NEW all \in SUBSET Names, Rows(slots, all)
    PROVE  Lists(Flat(slots), all)
<1> DEFINE ss == NamesOf(slots)
<1>1. Flat(slots) = FlattenSeq(ss)
  BY DEF Flat, NamesOf
<1>2. ss \in Seq(Seq(Names)) /\ DOMAIN ss = DOMAIN slots /\ \A i \in DOMAIN slots : ss[i] = slots[i].names
  <2>1. slots \in [1 .. Len(slots) -> Slots] /\ Len(slots) \in Nat
    BY DEF Rows
  <2> QED  BY <2>1 DEF NamesOf, Slots
<1> HIDE DEF ss
<1>3. Apart(ss)
  BY DEF Rows, ss
<1>4. /\ FlattenSeq(ss) \in Seq(Names) /\ IsInjective(FlattenSeq(ss))
      /\ \A x : x \in Range(FlattenSeq(ss)) <=> \E i \in DOMAIN ss : x \in Range(ss[i])
  BY <1>2, <1>3, FlattenFacts
<1>5. \A x : x \in Range(FlattenSeq(ss)) <=> x \in all
  BY <1>2, <1>4 DEF Rows
<1> QED  BY <1>1, <1>4, <1>5 DEF Lists

LEMMA DisplayLists ==
    ASSUME NEW c, SettingsOK(c), NEW all \in SUBSET Names
    PROVE  Lists(Display(c, all), all)
  BY LayoutRows, FlatLists DEF Display
-----------------------------------------------------------------------------
(* What the changes of the settings keep.                                  *)

(* Rows that are shifted are the same rows.                                *)
LEMMA ShiftedRows ==
    ASSUME NEW slots, NEW all, Rows(slots, all), NEW pos \in DOMAIN slots, NEW to \in Int
    PROVE  Rows(Shifted(slots, pos, to), all)
<1> DEFINE r == Shifted(slots, pos, to)
<1>1. slots \in Seq(Slots) /\ pos \in 1 .. Len(slots)
  BY DEF Rows
<1>2. r \in Seq(Slots) /\ DOMAIN r = DOMAIN slots /\ Rearranged(slots, r)
  BY <1>1, ShiftedFacts
<1> HIDE DEF r
<1>3. PICK f \in [DOMAIN slots -> DOMAIN slots] :
        /\ \A i \in DOMAIN slots : r[i] = slots[f[i]]
        /\ \A i, j \in DOMAIN slots : f[i] = f[j] => i = j
        /\ \A k \in DOMAIN slots : \E i \in DOMAIN slots : f[i] = k
  BY <1>2 DEF Rearranged
<1>4. \A i, j \in DOMAIN slots :
        /\ IsInjective(slots[i].names)
        /\ i # j => Range(slots[i].names) \cap Range(slots[j].names) = {}
  BY DEF Rows, Apart, NamesOf
<1>5. Apart(NamesOf(r))
  <2>1. ASSUME NEW i \in DOMAIN r, NEW j \in DOMAIN r, i # j
        PROVE  Range(r[i].names) \cap Range(r[j].names) = {}
    <3>1. f[i] \in DOMAIN slots /\ f[j] \in DOMAIN slots /\ f[i] # f[j]
      BY <1>2, <1>3, <2>1
    <3>2. r[i] = slots[f[i]] /\ r[j] = slots[f[j]]
      BY <1>2, <1>3
    <3> QED  BY <1>4, <3>1, <3>2
  <2>2. \A i \in DOMAIN r : IsInjective(r[i].names)
    BY <1>2, <1>3, <1>4
  <2> QED  BY <2>1, <2>2 DEF Apart, NamesOf
<1>6. ASSUME NEW x PROVE x \in all <=> \E i \in DOMAIN r : x \in Range(r[i].names)
  <2>1. x \in all => \E k \in DOMAIN slots : x \in Range(slots[k].names)
    BY DEF Rows
  <2>2. ASSUME NEW i \in DOMAIN r, x \in Range(r[i].names)
        PROVE  x \in all
    <3>1. f[i] \in DOMAIN slots /\ r[i] = slots[f[i]]
      BY <1>2, <1>3
    <3> HIDE DEF r
    <3> QED  BY <2>2, <3>1 DEF Rows
  <2>3. ASSUME NEW k \in DOMAIN slots, x \in Range(slots[k].names)
        PROVE  \E i \in DOMAIN r : x \in Range(r[i].names)
    <3>1. PICK i \in DOMAIN slots : f[i] = k
      BY <1>3
    <3>2. i \in DOMAIN r /\ r[i] = slots[k]
      BY <1>2, <1>3, <3>1
    <3> QED  BY <2>3, <3>2
  <2> QED  BY <2>1, <2>2, <2>3
<1> QED  BY <1>2, <1>5, <1>6 DEF Rows, r

(* Rows of which some are rearranged within are the same rows.             *)
LEMMA WithinRows ==
    ASSUME NEW slots, NEW all, Rows(slots, all), NEW r \in Seq(Slots), DOMAIN r = DOMAIN slots,
           \A i \in DOMAIN slots : /\ IsInjective(r[i].names)
                                   /\ \A x : x \in Range(r[i].names) <=> x \in Range(slots[i].names)
    PROVE  Rows(r, all)
<1>1. \A i, j \in DOMAIN slots : i # j => Range(slots[i].names) \cap Range(slots[j].names) = {}
  BY DEF Rows, Apart, NamesOf
<1>2. Apart(NamesOf(r))
  BY <1>1, ZenonT(60) DEF Apart, NamesOf
<1> QED  BY <1>2 DEF Rows

LEMMA PlaceThere ==
    ASSUME NEW s, NEW n \in Range(s)
    PROVE  Place(s, n) \in DOMAIN s /\ s[Place(s, n)] = n
<1>1. \E i \in DOMAIN s : s[i] = n
  BY DEF Range
<1> QED  BY <1>1 DEF Place

LEMMA TargetTyped ==
    ASSUME NEW to \in {"up", "down", "top", "bottom"}, NEW pos \in Int, NEW len \in Int
    PROVE  Target(to, pos, len) \in Int
  BY DEF Target

(* Another order of names.                                                 *)
LEMMA ReorderedOK ==
    ASSUME NEW c, NEW o, NEW all, Lists(o, all)
    PROVE  LET d == [c EXCEPT !.order = o]
           IN (SettingsOK(c) => SettingsOK(d)) /\ (Tidy(c) => Tidy(d))
<1> DEFINE d == [c EXCEPT !.order = o]
<1>1. ASSUME c \in Configs
      PROVE  d \in Configs /\ d.order = o /\ d.group = c.group /\ d.groups = c.groups
  BY <1>1 DEF Configs, Lists
<1> HIDE DEF d
<1>2. SettingsOK(c) => SettingsOK(d)
  BY <1>1 DEF SettingsOK, Lists
<1>3. Tidy(c) => Tidy(d)
  BY <1>1, <1>2 DEF Tidy, SettingsOK
<1> QED  BY <1>2, <1>3 DEF d
-----------------------------------------------------------------------------
(* The order of a list: what comes before what.                            *)

Prec(s, x, y) == \E i, j \in DOMAIN s : i < j /\ s[i] = x /\ s[j] = y

(* Of a list without repetition it is a strict order, of all that is there.*)
LEMMA PrecOrders ==
    ASSUME NEW T, NEW s \in Seq(T), IsInjective(s)
    PROVE  /\ \A x, y : Prec(s, x, y) => x \in Range(s) /\ y \in Range(s) /\ x # y
           /\ \A x, y : Prec(s, x, y) => ~Prec(s, y, x)
           /\ \A x, y, z : Prec(s, x, y) /\ Prec(s, y, z) => Prec(s, x, z)
           /\ \A x, y \in Range(s) : x = y \/ Prec(s, x, y) \/ Prec(s, y, x)
<1>1. DOMAIN s \subseteq Int /\ \A i, j \in DOMAIN s : s[i] = s[j] => i = j
  BY DEF IsInjective
<1>2. \A x, y : Prec(s, x, y) => x \in Range(s) /\ y \in Range(s) /\ x # y
  BY <1>1 DEF Prec, Range
<1>3. \A x, y : Prec(s, x, y) => ~Prec(s, y, x)
  BY <1>1 DEF Prec
<1>4. ASSUME NEW x, NEW y, NEW z, Prec(s, x, y), Prec(s, y, z) PROVE Prec(s, x, z)
  <2>1. PICK i, j \in DOMAIN s : i < j /\ s[i] = x /\ s[j] = y
    BY <1>4 DEF Prec
  <2>2. PICK k, l \in DOMAIN s : k < l /\ s[k] = y /\ s[l] = z
    BY <1>4 DEF Prec
  <2>3. j = k
    BY <1>1, <2>1, <2>2
  <2>4. i < l
    BY <1>1, <2>1, <2>2, <2>3
  <2> QED  BY <2>1, <2>2, <2>4 DEF Prec
<1>5. ASSUME NEW x \in Range(s), NEW y \in Range(s), x # y PROVE Prec(s, x, y) \/ Prec(s, y, x)
  <2>1. PICK i, j \in DOMAIN s : s[i] = x /\ s[j] = y
    BY DEF Range
  <2>2. i < j \/ j < i
    BY <1>1, <1>5, <2>1
  <2> QED  BY <2>1, <2>2 DEF Prec
<1> QED  BY <1>2, <1>3, <1>4, <1>5

LEMMA PrecPlaces ==
    ASSUME NEW T, NEW s \in Seq(T), IsInjective(s), NEW x, NEW y, Prec(s, x, y)
    PROVE  Place(s, x) < Place(s, y)
<1>1. PICK i, j \in DOMAIN s : i < j /\ s[i] = x /\ s[j] = y
  BY DEF Prec
<1>2. Place(s, x) = i /\ Place(s, y) = j
  BY <1>1 DEF Place, IsInjective
<1> QED  BY <1>1, <1>2

(* It makes the list.                                                      *)
LEMMA SameOrder ==
    ASSUME NEW T, NEW s \in Seq(T), NEW t \in Seq(T), IsInjective(s), IsInjective(t),
           \A x : x \in Range(s) <=> x \in Range(t),
           \A x, y : Prec(s, x, y) => Prec(t, x, y)
    PROVE  s = t
<1>1. /\ Len(s) \in Nat /\ DOMAIN s = 1 .. Len(s) /\ (\A i, j \in DOMAIN s : s[i] = s[j] => i = j)
      /\ Len(t) \in Nat /\ DOMAIN t = 1 .. Len(t) /\ (\A i, j \in DOMAIN t : t[i] = t[j] => i = j)
  BY DEF IsInjective
<1>2. /\ \A i \in DOMAIN s : \E k \in DOMAIN t : t[k] = s[i]
      /\ \A k \in DOMAIN t : \E i \in DOMAIN s : s[i] = t[k]
  BY DEF Range
<1>3. \A i, j \in DOMAIN s : \A k, l \in DOMAIN t : i < j /\ t[k] = s[i] /\ t[l] = s[j] => k < l
  <2> TAKE i, j \in DOMAIN s
  <2> TAKE k, l \in DOMAIN t
  <2> HAVE i < j /\ t[k] = s[i] /\ t[l] = s[j]
  <2>1. Prec(t, s[i], s[j])
    BY DEF Prec
  <2>2. PICK a, b \in DOMAIN t : a < b /\ t[a] = s[i] /\ t[b] = s[j]
    BY <2>1 DEF Prec
  <2> QED  BY <1>1, <2>2
<1> DEFINE n == Len(s)
           m == Len(t)
           Good == {i \in 0 .. n : i <= m /\ \A j \in 1 .. i : s[j] = t[j]}
<1>4. 0 \in Good
  BY <1>1
<1>5. ASSUME NEW i \in 1 .. n, i - 1 \in Good PROVE i \in Good
  <2>1. /\ i - 1 <= m /\ \A j \in 1 .. i - 1 : s[j] = t[j]
    BY <1>5
  <2>2. PICK k \in DOMAIN t : t[k] = s[i]
    BY <1>1, <1>2
  <2>3. k \in 1 .. m /\ m \in Nat /\ i \in DOMAIN s /\ i \in 0 .. n
    BY <1>1
  <2>4. k >= i
    <3>1. SUFFICES ASSUME k < i PROVE FALSE
      BY <2>3
    <3>2. k \in 1 .. i - 1 /\ k \in DOMAIN s
      BY <1>1, <2>3, <3>1
    <3>3. s[k] = s[i]
      BY <2>1, <2>2, <3>2
    <3> QED  BY <1>1, <2>3, <3>1, <3>2, <3>3
  <2>5. i \in DOMAIN t /\ i <= m
    BY <1>1, <2>3, <2>4
  <2>6. k = i
    <3>1. SUFFICES ASSUME k > i PROVE FALSE
      BY <2>3, <2>4
    <3>2. PICK l \in DOMAIN s : s[l] = t[i]
      BY <1>2, <2>5
    <3>3. l >= i
      <4>1. SUFFICES ASSUME l < i PROVE FALSE
        BY <1>1, <3>2
      <4>2. l \in 1 .. i - 1 /\ l \in DOMAIN t
        BY <1>1, <2>5, <3>2, <4>1
      <4>3. t[l] = t[i]
        BY <2>1, <3>2, <4>2
      <4> QED  BY <1>1, <2>5, <4>1, <4>2, <4>3
    <3>4. l # i
      BY <1>1, <2>2, <2>5, <3>1, <3>2
    <3>5. i < l
      BY <1>1, <3>2, <3>3, <3>4
    <3>6. k < i
      BY <1>3, <2>2, <2>3, <2>5, <3>2, <3>5
    <3> QED  BY <2>3, <3>1, <3>6
  <2>7. \A j \in 1 .. i : j = i \/ j \in 1 .. i - 1
    BY <1>1
  <2>8. \A j \in 1 .. i : s[j] = t[j]
    BY <2>1, <2>2, <2>6, <2>7
  <2> QED  BY <2>3, <2>5, <2>8
<1>6. n \in Good
  <2> HIDE DEF Good
  <2>1. n \in Nat /\ n \in 0 .. n
    BY <1>1
  <2> QED  BY <1>4, <1>5, <2>1, UpTo
<1>7. n <= m /\ \A j \in 1 .. n : s[j] = t[j]
  BY <1>6
<1>8. m = n
  <2>0. n \in Nat /\ m \in Nat /\ DOMAIN t = 1 .. m /\ DOMAIN s = 1 .. n
    BY <1>1
  <2> HIDE DEF n, m, Good
  <2>1. SUFFICES ASSUME n < m PROVE FALSE
    BY <1>7, <2>0
  <2>2. n + 1 \in DOMAIN t
    BY <2>0, <2>1
  <2>3. PICK i \in DOMAIN s : s[i] = t[n + 1]
    BY <1>2, <2>2
  <2>4. i \in 1 .. n /\ i \in DOMAIN t /\ i # n + 1
    BY <1>7, <2>0, <2>3
  <2> QED  BY <1>1, <1>7, <2>2, <2>3, <2>4
<1>9. DOMAIN s = DOMAIN t /\ \A j \in DOMAIN s : s[j] = t[j]
  BY <1>1, <1>7, <1>8
<1> QED  BY <1>9

(* How it comes about: at the end of a list, behind another list, in what  *)
(* is left of a list, in one of several lists.                             *)
LEMMA PrecAppend ==
    ASSUME NEW T, NEW s \in Seq(T), NEW t \in T
    PROVE  \A x, y : Prec(Append(s, t), x, y) <=> Prec(s, x, y) \/ (x \in Range(s) /\ y = t)
<1> DEFINE r == Append(s, t)
           n == Len(s)
<1>1. /\ n \in Nat /\ DOMAIN s = 1 .. n /\ DOMAIN r = 1 .. n + 1
      /\ r[n + 1] = t /\ \A i \in 1 .. n : r[i] = s[i]
  OBVIOUS
<1> HIDE DEF r, n
<1>2. /\ n + 1 \in 1 .. n + 1 /\ \A i \in 1 .. n : i \in 1 .. n + 1 /\ i < n + 1
      /\ \A i \in 1 .. n + 1 : (i = n + 1 \/ i \in 1 .. n) /\ ~(n + 1 < i)
  BY <1>1
<1>3. ASSUME NEW x, NEW y, Prec(r, x, y) PROVE Prec(s, x, y) \/ (x \in Range(s) /\ y = t)
  <2>1. PICK i, j \in DOMAIN r : i < j /\ r[i] = x /\ r[j] = y
    BY <1>3 DEF Prec
  <2>2. i \in 1 .. n /\ s[i] = x
    BY <1>1, <1>2, <2>1
  <2>3. CASE j = n + 1
    BY <1>1, <2>1, <2>2, <2>3 DEF Range
  <2>4. CASE j \in 1 .. n
    BY <1>1, <2>1, <2>2, <2>4 DEF Prec
  <2> QED  BY <1>1, <1>2, <2>1, <2>3, <2>4
<1>4. ASSUME NEW x, NEW y, Prec(s, x, y) PROVE Prec(r, x, y)
  BY <1>1, <1>2, <1>4 DEF Prec
<1>5. ASSUME NEW x \in Range(s) PROVE Prec(r, x, t)
  <2>1. PICK i \in 1 .. n : s[i] = x
    BY <1>1 DEF Range
  <2> QED  BY <1>1, <1>2, <2>1 DEF Prec
<1> QED  BY <1>3, <1>4, <1>5 DEF r

LEMMA PrecConcat ==
    ASSUME NEW T, NEW s \in Seq(T), NEW t \in Seq(T)
    PROVE  \A x, y : Prec(s \o t, x, y)
                       <=> Prec(s, x, y) \/ Prec(t, x, y) \/ (x \in Range(s) /\ y \in Range(t))
<1> DEFINE r == s \o t
           n == Len(s)
           m == Len(t)
<1>1. /\ n \in Nat /\ m \in Nat /\ DOMAIN s = 1 .. n /\ DOMAIN t = 1 .. m /\ DOMAIN r = 1 .. n + m
      /\ \A i \in 1 .. n + m : r[i] = IF i <= n THEN s[i] ELSE t[i - n]
  BY ConcatProperties
<1> HIDE DEF r, n, m
<1>2. \A i \in 1 .. n + m : (i \in 1 .. n /\ i <= n) \/ (i - n \in 1 .. m /\ ~(i <= n))
  BY <1>1
<1>3. \A i \in 1 .. n : i \in 1 .. n + m /\ r[i] = s[i]
  BY <1>1
<1>4. \A i \in 1 .. m : i + n \in 1 .. n + m /\ r[i + n] = t[i]
  <2> TAKE i \in 1 .. m
  <2>1. i + n \in 1 .. n + m /\ ~(i + n <= n) /\ (i + n) - n = i
    BY <1>1
  <2> QED  BY <1>1, <2>1
<1>5. ASSUME NEW x, NEW y, Prec(r, x, y)
      PROVE  Prec(s, x, y) \/ Prec(t, x, y) \/ (x \in Range(s) /\ y \in Range(t))
  <2>1. PICK i, j \in 1 .. n + m : i < j /\ r[i] = x /\ r[j] = y
    BY <1>1, <1>5 DEF Prec
  <2>2. CASE j <= n
    <3>1. i \in 1 .. n /\ j \in 1 .. n /\ s[i] = x /\ s[j] = y
      BY <1>1, <2>1, <2>2
    <3> QED  BY <1>1, <2>1, <3>1 DEF Prec
  <2>3. CASE i <= n /\ ~(j <= n)
    <3>1. i \in 1 .. n /\ j - n \in 1 .. m /\ s[i] = x /\ t[j - n] = y
      BY <1>1, <1>2, <2>1, <2>3
    <3> QED  BY <1>1, <3>1 DEF Range
  <2>4. CASE ~(i <= n)
    <3>1. i - n \in 1 .. m /\ j - n \in 1 .. m /\ i - n < j - n /\ ~(j <= n)
      BY <1>1, <2>1, <2>4
    <3>2. t[i - n] = x /\ t[j - n] = y
      BY <1>1, <2>1, <2>4, <3>1
    <3> QED  BY <1>1, <3>1, <3>2 DEF Prec
  <2> QED  BY <2>1, <2>2, <2>3, <2>4, <1>1
<1>6. ASSUME NEW x, NEW y, Prec(s, x, y) PROVE Prec(r, x, y)
  BY <1>1, <1>3, <1>6 DEF Prec
<1>7. ASSUME NEW x, NEW y, Prec(t, x, y) PROVE Prec(r, x, y)
  <2>1. PICK i, j \in 1 .. m : i < j /\ t[i] = x /\ t[j] = y
    BY <1>1, <1>7 DEF Prec
  <2>2. i + n < j + n
    BY <1>1, <2>1
  <2> QED  BY <1>1, <1>4, <2>1, <2>2 DEF Prec
<1>8. ASSUME NEW x \in Range(s), NEW y \in Range(t) PROVE Prec(r, x, y)
  <2>1. PICK i \in 1 .. n : s[i] = x
    BY <1>1 DEF Range
  <2>2. PICK j \in 1 .. m : t[j] = y
    BY <1>1 DEF Range
  <2>3. i < j + n
    BY <1>1
  <2> QED  BY <1>1, <1>3, <1>4, <2>1, <2>2, <2>3 DEF Prec
<1> QED  BY <1>5, <1>6, <1>7, <1>8 DEF r

LEMMA PrecEmpty == \A x, y : ~Prec(<<>>, x, y)
  BY DEF Prec

LEMMA PrecAmong ==
    ASSUME NEW T, NEW s \in Seq(T), NEW some
    PROVE  \A x, y : Prec(Among(s, some), x, y) <=> Prec(s, x, y) /\ x \in some /\ y \in some
<1> DEFINE n == Len(s)
           Upto(i, x, y) == \E j, k \in 1 .. i : j < k /\ s[j] = x /\ s[k] = y
<1>1. PICK f : IsFilter(f, s, some) /\ Among(s, some) = f[n]
  BY AmongSteps
<1>2. n \in Nat /\ DOMAIN s = 1 .. n /\ \A i \in 1 .. n : s[i] \in T
  OBVIOUS
<1>3. /\ f[0] = <<>>
      /\ \A i \in 1 .. n : f[i] = IF s[i] \in some THEN Append(f[i - 1], s[i]) ELSE f[i - 1]
  BY <1>1 DEF IsFilter
<1> HIDE DEF n
<1> DEFINE Good == {i \in 0 .. n :
                      /\ f[i] \in Seq(T)
                      /\ \A x : x \in Range(f[i]) <=> x \in some /\ \E j \in 1 .. i : x = s[j]
                      /\ \A x, y : Prec(f[i], x, y) <=> Upto(i, x, y) /\ x \in some /\ y \in some}
<1>4. 0 \in Good
  <2>1. <<>> \in Seq(T) /\ Range(<<>>) = {} /\ 0 \in 0 .. n /\ 1 .. 0 = {}
    BY <1>2 DEF Range
  <2>2. \A x, y : ~Upto(0, x, y)
    BY <2>1
  <2> HIDE DEF Upto
  <2> QED  BY <1>3, <2>1, <2>2, PrecEmpty
<1>5. ASSUME NEW i \in 1 .. n, i - 1 \in Good PROVE i \in Good
  <2> DEFINE u == f[i - 1]
             v == f[i]
  <2>1. /\ u \in Seq(T)
        /\ \A x : x \in Range(u) <=> x \in some /\ \E j \in 1 .. i - 1 : x = s[j]
        /\ \A x, y : Prec(u, x, y) <=> Upto(i - 1, x, y) /\ x \in some /\ y \in some
    <3> HIDE DEF Upto
    <3> QED  BY <1>5
  <2>2. /\ i \in 0 .. n /\ i \in 1 .. i /\ s[i] \in T /\ \A j \in 1 .. i - 1 : j \in 1 .. i /\ j < i
        /\ \A j \in 1 .. i : j = i \/ j \in 1 .. i - 1
        /\ \A j, k \in 1 .. i : j < k => j \in 1 .. i - 1
    BY <1>2
  <2>3. \A x, y : Upto(i, x, y) <=> Upto(i - 1, x, y) \/ (y = s[i] /\ \E j \in 1 .. i - 1 : x = s[j])
    BY <2>2
  <2>4. v = IF s[i] \in some THEN Append(u, s[i]) ELSE u
    BY <1>3
  <2> HIDE DEF u, v, Upto
  <2>5. CASE s[i] \in some
    <3>1. v = Append(u, s[i])
      BY <2>4, <2>5
    <3>2. v \in Seq(T) /\ \A x : x \in Range(v) <=> x \in Range(u) \/ x = s[i]
      BY <2>1, <2>2, <3>1, AppendFacts
    <3>3. \A x, y : Prec(v, x, y) <=> Prec(u, x, y) \/ (x \in Range(u) /\ y = s[i])
      BY <2>1, <2>2, <3>1, PrecAppend
    <3>4. \A x : x \in Range(v) <=> x \in some /\ \E j \in 1 .. i : x = s[j]
      BY <2>1, <2>2, <2>5, <3>2
    <3>5. \A x, y : Prec(v, x, y) <=> Upto(i, x, y) /\ x \in some /\ y \in some
      BY <2>1, <2>3, <2>5, <3>3
    <3> QED  BY <2>2, <3>2, <3>4, <3>5 DEF v
  <2>6. CASE s[i] \notin some
    <3>1. v = u
      BY <2>4, <2>6
    <3>2. \A x : x \in Range(v) <=> x \in some /\ \E j \in 1 .. i : x = s[j]
      BY <2>1, <2>2, <2>6, <3>1
    <3>3. \A x, y : Prec(v, x, y) <=> Upto(i, x, y) /\ x \in some /\ y \in some
      BY <2>1, <2>3, <2>6, <3>1
    <3> QED  BY <2>1, <2>2, <3>1, <3>2, <3>3 DEF v
  <2> QED  BY <2>5, <2>6
<1>6. n \in Good
  <2> HIDE DEF Good
  <2>1. n \in 0 .. n
    BY <1>2
  <2> QED  BY <1>2, <1>4, <1>5, <2>1, UpTo
<1>7. \A x, y : Prec(f[n], x, y) <=> Upto(n, x, y) /\ x \in some /\ y \in some
  <2> HIDE DEF Upto
  <2> QED  BY <1>6
<1>8. \A x, y : Prec(s, x, y) <=> Upto(n, x, y)
  BY <1>2 DEF Prec
<1> HIDE DEF Upto
<1> QED  BY <1>1, <1>7, <1>8

LEMMA PrecFlatten ==
    ASSUME NEW T, NEW ss \in Seq(Seq(T)), NEW i \in DOMAIN ss, NEW j \in DOMAIN ss, NEW x, NEW y,
           \/ i < j /\ x \in Range(ss[i]) /\ y \in Range(ss[j])
           \/ i = j /\ Prec(ss[i], x, y)
    PROVE  Prec(FlattenSeq(ss), x, y)
<1> DEFINE n == Len(ss)
<1>1. PICK f : /\ f[0] = <<>> /\ \A k \in 1 .. n : f[k] = f[k - 1] \o ss[k]
               /\ FlattenSeq(ss) = f[n]
  BY FlattenSteps
<1>2. n \in Nat /\ DOMAIN ss = 1 .. n /\ \A k \in 1 .. n : ss[k] \in Seq(T)
  OBVIOUS
<1> HIDE DEF n
<1> DEFINE Good == {k \in 0 .. n :
                      /\ f[k] \in Seq(T)
                      /\ i <= k /\ x \in Range(ss[i]) => x \in Range(f[k])
                      /\ i <= k /\ j <= k => Prec(f[k], x, y)}
<1>3. 0 \in Good
  <2>1. ~(i <= 0) /\ 0 \in 0 .. n /\ <<>> \in Seq(T)
    BY <1>2
  <2> QED  BY <1>1, <2>1
<1>4. ASSUME NEW k \in 1 .. n, k - 1 \in Good PROVE k \in Good
  <2> DEFINE u == f[k - 1]
  <2>1. /\ u \in Seq(T)
        /\ i <= k - 1 /\ x \in Range(ss[i]) => x \in Range(u)
        /\ i <= k - 1 /\ j <= k - 1 => Prec(u, x, y)
    BY <1>4
  <2>2. f[k] = u \o ss[k] /\ ss[k] \in Seq(T)
    BY <1>1, <1>2
  <2> HIDE DEF u
  <2>3. /\ f[k] \in Seq(T) /\ \A z : z \in Range(f[k]) <=> z \in Range(u) \/ z \in Range(ss[k])
    BY <2>1, <2>2, ConcatFacts
  <2>4. \A a, b : Prec(f[k], a, b) <=> Prec(u, a, b) \/ Prec(ss[k], a, b) \/ (a \in Range(u) /\ b \in Range(ss[k]))
    BY <2>1, <2>2, PrecConcat
  <2>5. k \in 0 .. n /\ (i <= k => i = k \/ i <= k - 1) /\ (j <= k => j = k \/ j <= k - 1)
    BY <1>2
  <2>6. i <= k /\ x \in Range(ss[i]) => x \in Range(f[k])
    BY <2>1, <2>3, <2>5
  <2>7. ASSUME i <= k, j <= k PROVE Prec(f[k], x, y)
    <3>1. CASE i <= k - 1 /\ j <= k - 1
      BY <2>1, <2>4, <3>1
    <3>2. CASE j = k /\ i <= k - 1
      <4>1. i < j /\ i # j
        BY <1>2, <3>2
      <4> QED  BY <2>1, <2>4, <3>2, <4>1
    <3>3. CASE i = k
      <4>1. j = k /\ i = j
        BY <1>2, <2>7, <3>3
      <4>2. ~(i < j)
        BY <1>2, <4>1
      <4> QED  BY <2>4, <3>3, <4>1, <4>2
    <3> QED  BY <2>5, <2>7, <3>1, <3>2, <3>3
  <2> QED  BY <2>3, <2>5, <2>6, <2>7
<1>5. n \in Good
  <2> HIDE DEF Good
  <2>1. n \in 0 .. n
    BY <1>2
  <2> QED  BY <1>2, <1>3, <1>4, <2>1, UpTo
<1>6. i <= n /\ j <= n
  BY <1>2
<1> QED  BY <1>1, <1>5, <1>6

(* Lists that agree on the order of whom they have besides some.           *)
LEMMA SameOthers ==
    ASSUME NEW all \in SUBSET Names, NEW s, Lists(s, all), NEW t, Lists(t, all), NEW ns,
           \A x, y \in all \ ns : Prec(s, x, y) => Prec(t, x, y)
    PROVE  Others(s, ns) = Others(t, ns)
<1> DEFINE S == Others(s, ns)
           U == Others(t, ns)
<1>1. /\ s \in Seq(Names) /\ IsInjective(s) /\ \A x : x \in Range(s) <=> x \in all
      /\ t \in Seq(Names) /\ IsInjective(t) /\ \A x : x \in Range(t) <=> x \in all
  BY DEF Lists
<1>2. /\ S \in Seq(Names) /\ IsInjective(S) /\ \A x : x \in Range(S) <=> x \in all /\ x \in Names \ ns
      /\ U \in Seq(Names) /\ IsInjective(U) /\ \A x : x \in Range(U) <=> x \in all /\ x \in Names \ ns
  BY <1>1, AmongFacts DEF Others
<1>3. /\ \A x, y : Prec(S, x, y) <=> Prec(s, x, y) /\ x \in Names \ ns /\ y \in Names \ ns
      /\ \A x, y : Prec(U, x, y) <=> Prec(t, x, y) /\ x \in Names \ ns /\ y \in Names \ ns
  BY <1>1, PrecAmong DEF Others
<1> HIDE DEF S, U
<1>4. ASSUME NEW x, NEW y, Prec(S, x, y) PROVE Prec(U, x, y)
  <2>1. Prec(s, x, y) /\ x \in Names \ ns /\ y \in Names \ ns
    BY <1>3, <1>4
  <2>2. x \in all /\ y \in all
    BY <1>1, <2>1, PrecOrders
  <2> QED  BY <1>3, <2>1, <2>2
<1> QED  BY <1>2, <1>4, SameOrder DEF S, U

(* Lists in the same order are the same.                                   *)
LEMMA SameLists ==
    ASSUME NEW all, NEW s, Lists(s, all), NEW t, Lists(t, all),
           \A x, y \in all : Prec(s, x, y) => Prec(t, x, y)
    PROVE  s = t
<1>1. /\ s \in Seq(Names) /\ IsInjective(s) /\ \A x : x \in Range(s) <=> x \in all
      /\ t \in Seq(Names) /\ IsInjective(t) /\ \A x : x \in Range(t) <=> x \in all
  BY DEF Lists
<1>2. \A x, y : Prec(s, x, y) => Prec(t, x, y)
  BY <1>1, PrecOrders
<1> QED  BY <1>1, <1>2, SameOrder

LEMMA ListOrder ==
    ASSUME NEW all, NEW s, Lists(s, all)
    PROVE  /\ \A x, y : Prec(s, x, y) => x \in all /\ y \in all /\ x # y
           /\ \A x, y : Prec(s, x, y) => ~Prec(s, y, x)
           /\ \A x, y, z : Prec(s, x, y) /\ Prec(s, y, z) => Prec(s, x, z)
           /\ \A x, y \in all : x = y \/ Prec(s, x, y) \/ Prec(s, y, x)
<1>1. s \in Seq(Names) /\ IsInjective(s) /\ \A x : x \in Range(s) <=> x \in all
  BY DEF Lists
<1> QED  BY <1>1, PrecOrders

-----------------------------------------------------------------------------
(* Who is in front of whom in the sidebar.                                 *)

(* Nobody stands between two of a group who is not of it.                  *)
Gathered(s, g) ==
    \A x, y, z \in Names : Prec(s, x, y) /\ Prec(s, y, z) /\ Together(g, x, z) => Together(g, x, y)

(* h is the first of the row of x. *)
IsHead(s, g, h, x) ==
    /\ h \in Range(s) /\ Together(g, h, x)
    /\ \A m \in Range(s) : Together(g, m, x) => m = h \/ Prec(s, h, m)

LEMMA HeadThere ==
    ASSUME NEW all \in SUBSET Names, NEW s, Lists(s, all), NEW g, NEW x \in all
    PROVE  \E h \in all : IsHead(s, g, h, x)
<1>1. /\ s \in Seq(Names) /\ IsInjective(s) /\ \A y : y \in Range(s) <=> y \in all
      /\ DOMAIN s \subseteq Nat
  BY DEF Lists
<1> DEFINE S == {i \in DOMAIN s : Together(g, s[i], x)}
<1>2. S # {} /\ S \in SUBSET Nat
  <2>1. PICK i \in DOMAIN s : s[i] = x
    BY <1>1 DEF Range
  <2> QED  BY <1>1, <2>1 DEF Together
<1>3. PICK i \in S : \A k \in S : i <= k
  <2> HIDE DEF S
  <2> QED  BY <1>2, LeastOf
<1>4. s[i] \in Range(s) /\ Together(g, s[i], x)
  BY <1>3 DEF Range
<1>5. ASSUME NEW m \in Range(s), Together(g, m, x) PROVE m = s[i] \/ Prec(s, s[i], m)
  <2>1. PICK k \in DOMAIN s : s[k] = m
    BY DEF Range
  <2>2. i <= k
    BY <1>3, <1>5, <2>1
  <2>3. i = k \/ i < k
    BY <1>1, <1>3, <2>1, <2>2
  <2> QED  BY <1>3, <2>1, <2>3 DEF Prec
<1>6. IsHead(s, g, s[i], x)
  BY <1>4, <1>5 DEF IsHead
<1> QED  BY <1>1, <1>4, <1>6

(* Those of a group stand as in the order, and rows as their heads.        *)
LEMMA DisplayOrder ==
    ASSUME NEW c, SettingsOK(c), NEW all \in SUBSET Names, NEW x \in all, NEW y \in all,
           NEW o, o = Ordered(c, all),
           \/ Together(c.group, x, y) /\ Prec(o, x, y)
           \/ /\ ~Together(c.group, x, y)
              /\ \E hx, hy \in all : IsHead(o, c.group, hx, x) /\ IsHead(o, c.group, hy, y) /\ Prec(o, hx, hy)
    PROVE  Prec(Display(c, all), x, y)
<1> DEFINE G(n) == GroupOf(c, n)
           Members(id) == Among(o, {n \in all : G(n) = id})
           first == {n \in all : G(n) # Nobody => n = Members(G(n))[1]}
           heads == Among(o, first)
           row == [i \in DOMAIN heads |->
                     LET id == G(heads[i])
                     IN [id |-> id, names |-> IF id = Nobody THEN <<heads[i]>> ELSE Members(id)]]
           ss == [i \in DOMAIN row |-> row[i].names]
<1>1. Display(c, all) = FlattenSeq(ss)
  BY DEF Layout, Display, Flat
<1>2. Lists(o, all) /\ o \in Seq(Names) /\ IsInjective(o) /\ \A n : n \in Range(o) <=> n \in all
  BY OrderedLists DEF Lists
<1>3. \A n \in all : G(n) = c.group[n] /\ G(n) \in Groups \cup {Nobody}
  BY DEF GroupOf, SettingsOK, Configs
<1>0. Nobody \notin Groups
  BY NobodyElse
<1> HIDE DEF G
<1>4. ASSUME NEW id
      PROVE  /\ Members(id) \in Seq(Names) /\ IsInjective(Members(id))
             /\ \A n : n \in Range(Members(id)) <=> n \in all /\ G(n) = id
             /\ \A n, m : Prec(Members(id), n, m)
                            <=> Prec(o, n, m) /\ n \in all /\ m \in all /\ G(n) = id /\ G(m) = id
  BY <1>2, AmongFacts, PrecAmong
<1>5. /\ heads \in Seq(Names) /\ IsInjective(heads) /\ \A n : n \in Range(heads) <=> n \in first
      /\ \A n, m : Prec(heads, n, m) <=> Prec(o, n, m) /\ n \in first /\ m \in first
  <2> HIDE DEF first
  <2>1. heads \in Seq(Names) /\ IsInjective(heads) /\ \A n : n \in Range(heads) <=> n \in Range(o) /\ n \in first
    BY <1>2, AmongFacts
  <2>2. first \subseteq all
    BY DEF first
  <2>3. \A n, m : Prec(heads, n, m) <=> Prec(o, n, m) /\ n \in first /\ m \in first
    BY <1>2, PrecAmong
  <2> QED  BY <1>2, <2>1, <2>2, <2>3
<1> HIDE DEF Members, heads
<1>6. /\ Len(heads) \in Nat /\ DOMAIN heads = 1 .. Len(heads)
      /\ \A i \in DOMAIN heads : heads[i] \in first /\ heads[i] \in all
  BY <1>5 DEF Range
<1>7. ASSUME NEW i \in DOMAIN heads
      PROVE  ss[i] \in Seq(Names) /\ ss[i] = IF G(heads[i]) = Nobody THEN <<heads[i]>> ELSE Members(G(heads[i]))
  <2>1. heads[i] \in Names
    BY <1>6
  <2>2. <<heads[i]>> \in Seq(Names) /\ Members(G(heads[i])) \in Seq(Names)
    BY <1>4, <2>1
  <2>3. ss[i] = IF G(heads[i]) = Nobody THEN <<heads[i]>> ELSE Members(G(heads[i]))
    OBVIOUS
  <2> QED  BY <2>2, <2>3
<1>8. ss \in Seq(Seq(Names)) /\ DOMAIN ss = DOMAIN heads
  <2>1. ss = [i \in 1 .. Len(heads) |-> ss[i]] /\ DOMAIN ss = 1 .. Len(heads)
    BY <1>6
  <2> HIDE DEF ss
  <2>2. ss \in [1 .. Len(heads) -> Seq(Names)]
    BY <1>6, <1>7, <2>1
  <2> QED  BY <1>6, <2>1, <2>2
<1> HIDE DEF ss, row
<1>9. ASSUME NEW n \in all, NEW h \in all, IsHead(o, c.group, h, n)
      PROVE  h \in first /\ \A i \in DOMAIN heads : heads[i] = h => n \in Range(ss[i])
  <2>1. Together(c.group, h, n) /\ \A m \in all : Together(c.group, m, n) => m = h \/ Prec(o, h, m)
    BY <1>2, <1>9 DEF IsHead
  <2>2. G(h) = G(n) /\ (G(n) = Nobody => h = n)
    BY <1>3, <2>1 DEF Together
  <2>3. CASE G(n) = Nobody
    <3>1. h \in first /\ h = n
      BY <2>2, <2>3
    <3>2. \A i \in DOMAIN heads : heads[i] = h => ss[i] = <<n>>
      BY <1>7, <2>2, <2>3
    <3> QED  BY <3>1, <3>2 DEF Range
  <2>4. CASE G(n) # Nobody
    <3> DEFINE ms == Members(G(n))
    <3>1. /\ ms \in Seq(Names) /\ IsInjective(ms) /\ \A m : m \in Range(ms) <=> m \in all /\ G(m) = G(n)
          /\ \A a, b : Prec(ms, a, b) <=> Prec(o, a, b) /\ a \in all /\ b \in all /\ G(a) = G(n) /\ G(b) = G(n)
      BY <1>4
    <3> HIDE DEF ms
    <3>2. h \in Range(ms) /\ n \in Range(ms)
      BY <2>2, <3>1
    <3>3. 1 \in DOMAIN ms /\ ms[1] \in Range(ms) /\ DOMAIN ms = 1 .. Len(ms)
      BY <3>1, <3>2 DEF Range
    <3>4. ms[1] = h
      <4>1. SUFFICES ASSUME ms[1] # h PROVE FALSE
        OBVIOUS
      <4>2. ms[1] \in all /\ G(ms[1]) = G(n)
        BY <3>1, <3>3
      <4>3. Together(c.group, ms[1], n)
        BY <1>3, <2>4, <4>2 DEF Together
      <4>4. Prec(ms, h, ms[1])
        BY <2>1, <2>2, <3>1, <4>1, <4>2, <4>3
      <4>5. PICK a, b \in DOMAIN ms : a < b /\ ms[b] = ms[1]
        BY <4>4 DEF Prec
      <4>6. b = 1
        BY <3>1, <3>3, <4>5 DEF IsInjective
      <4> QED  BY <3>3, <4>5, <4>6
    <3>5. h \in first
      BY <2>2, <3>4 DEF ms
    <3>6. \A i \in DOMAIN heads : heads[i] = h => ss[i] = ms
      BY <1>7, <2>2, <2>4 DEF ms
    <3> QED  BY <3>2, <3>5, <3>6
  <2> QED  BY <2>3, <2>4
<1>10. CASE Together(c.group, x, y) /\ Prec(o, x, y)
  <2>1. PICK h \in all : IsHead(o, c.group, h, x)
    BY <1>2, HeadThere
  <2>2. h \in first /\ \A i \in DOMAIN heads : heads[i] = h => x \in Range(ss[i])
    BY <1>9, <2>1
  <2>3. PICK i \in DOMAIN heads : heads[i] = h
    BY <1>5, <2>2 DEF Range
  <2>4. x # y /\ G(x) = G(y) /\ G(x) # Nobody
    BY <1>2, <1>3, <1>10, ListOrder DEF Together
  <2>5. G(h) = G(x)
    BY <1>3, <2>1 DEF IsHead, Together
  <2>6. ss[i] = Members(G(x))
    BY <1>7, <2>3, <2>4, <2>5
  <2>7. Prec(ss[i], x, y)
    BY <1>4, <1>10, <2>4, <2>6
  <2> QED  BY <1>1, <1>8, <2>7, PrecFlatten
<1>11. ASSUME NEW hx \in all, NEW hy \in all, IsHead(o, c.group, hx, x), IsHead(o, c.group, hy, y), Prec(o, hx, hy)
       PROVE  Prec(Display(c, all), x, y)
  <2>1. hx \in first /\ \A i \in DOMAIN heads : heads[i] = hx => x \in Range(ss[i])
    BY <1>9, <1>11
  <2>2. hy \in first /\ \A i \in DOMAIN heads : heads[i] = hy => y \in Range(ss[i])
    BY <1>9, <1>11
  <2>3. Prec(heads, hx, hy)
    BY <1>5, <1>11, <2>1, <2>2
  <2>4. PICK i, j \in DOMAIN heads : i < j /\ heads[i] = hx /\ heads[j] = hy
    BY <2>3 DEF Prec
  <2>5. x \in Range(ss[i]) /\ y \in Range(ss[j])
    BY <2>1, <2>2, <2>4
  <2> QED  BY <1>1, <1>8, <2>4, <2>5, PrecFlatten
<1> QED  BY <1>10, <1>11

(* The order of the sidebar, row by row. *)
LEMMA FlatOrder ==
    ASSUME NEW slots, NEW all \in SUBSET Names, Rows(slots, all),
           NEW i \in DOMAIN slots, NEW j \in DOMAIN slots,
           NEW x \in Range(slots[i].names), NEW y \in Range(slots[j].names)
    PROVE  Prec(Flat(slots), x, y) <=> i < j \/ (i = j /\ Prec(slots[i].names, x, y))
<1> DEFINE ss == NamesOf(slots)
<1>1. Flat(slots) = FlattenSeq(ss)
  BY DEF Flat, NamesOf
<1>2. /\ ss \in Seq(Seq(Names)) /\ DOMAIN ss = DOMAIN slots /\ \A k \in DOMAIN slots : ss[k] = slots[k].names
      /\ DOMAIN slots \subseteq Int
  <2>1. slots \in [1 .. Len(slots) -> Slots] /\ Len(slots) \in Nat
    BY DEF Rows
  <2> QED  BY <2>1 DEF NamesOf, Slots
<1>3. Apart(ss) /\ Apart(NamesOf(slots))
  BY DEF Rows
<1> HIDE DEF ss
<1>4. /\ i < j => Prec(Flat(slots), x, y)
      /\ j < i => Prec(Flat(slots), y, x)
      /\ i = j /\ Prec(ss[i], x, y) => Prec(Flat(slots), x, y)
      /\ i = j /\ Prec(ss[i], y, x) => Prec(Flat(slots), y, x)
  BY <1>1, <1>2, PrecFlatten
<1>5. Lists(Flat(slots), all)
  BY FlatLists
<1>6. ASSUME Prec(Flat(slots), x, y) PROVE i < j \/ (i = j /\ Prec(slots[i].names, x, y))
  <2>1. ~Prec(Flat(slots), y, x) /\ x # y
    BY <1>5, <1>6, ListOrder
  <2>2. i < j \/ i = j
    BY <1>2, <1>4, <2>1
  <2>3. ASSUME i = j PROVE Prec(ss[i], x, y)
    <3>1. ss[i] \in Seq(Names) /\ IsInjective(ss[i]) /\ x \in Range(ss[i]) /\ y \in Range(ss[i])
      BY <1>2, <1>3, <2>3 DEF Apart
    <3>2. Prec(ss[i], x, y) \/ Prec(ss[i], y, x)
      BY <2>1, <3>1, PrecOrders
    <3> QED  BY <1>4, <2>1, <2>3, <3>2
  <2> QED  BY <1>2, <2>2, <2>3
<1> QED  BY <1>2, <1>4, <1>6

(* Rows keep a group together. *)
LEMMA FlatGathered ==
    ASSUME NEW slots, NEW all \in SUBSET Names, Rows(slots, all), NEW g, Classes(slots, g)
    PROVE  Gathered(Flat(slots), g)
<1>1. SUFFICES ASSUME NEW x \in Names, NEW y \in Names, NEW z \in Names,
                      Prec(Flat(slots), x, y), Prec(Flat(slots), y, z), Together(g, x, z)
               PROVE  Together(g, x, y)
  BY DEF Gathered
<1>2. Lists(Flat(slots), all)
  BY FlatLists
<1>3. x \in all /\ y \in all /\ z \in all /\ Prec(Flat(slots), x, z) /\ x # z
  BY <1>1, <1>2, ListOrder
<1>4. PICK i, j, k \in DOMAIN slots :
        x \in Range(slots[i].names) /\ y \in Range(slots[j].names) /\ z \in Range(slots[k].names)
  BY <1>3 DEF Rows
<1>5. i <= j /\ j <= k
  <2>1. DOMAIN slots \subseteq Int
    BY DEF Rows
  <2>2. (i < j \/ i = j) /\ (j < k \/ j = k)
    BY <1>1, <1>4, FlatOrder
  <2> QED  BY <2>1, <2>2
<1>6. i = k
  <2>1. g[x] = slots[i].id /\ g[z] = slots[k].id
    BY <1>4 DEF Classes
  <2> QED  BY <1>1, <1>3, <2>1 DEF Together, Classes
<1>7. i = j
  <2>1. DOMAIN slots \subseteq Int
    BY DEF Rows
  <2> QED  BY <1>5, <1>6, <2>1
<1> QED  BY <1>4, <1>7 DEF Classes

LEMMA DisplayGathers ==
    ASSUME NEW c, SettingsOK(c), NEW all \in SUBSET Names
    PROVE  Gathered(Display(c, all), c.group)
  BY LayoutRows, FlatGathered DEF Display

(* An order that has everybody is the order. *)
LEMMA OrderedWhole ==
    ASSUME NEW c, SettingsOK(c), NEW all \in SUBSET Names, Lists(c.order, all)
    PROVE  Ordered(c, all) = c.order
<1>1. c.order \in Seq(Names) /\ Range(c.order) \subseteq all /\ all \ Range(c.order) = {}
  BY DEF Lists
<1>2. Among(c.order, all) = c.order
  BY <1>1, AmongAll
<1>3. Lists(Sorted({}), {})
  BY SortedLists
<1>4. Sorted({}) = <<>>
  <2>1. Sorted({}) \in Seq(Names) /\ Range(Sorted({})) = {}
    BY <1>3 DEF Lists
  <2>2. DOMAIN Sorted({}) = {}
    BY <2>1 DEF Range
  <2>3. Len(Sorted({})) = 0
    BY <2>1, <2>2
  <2> QED  BY <2>1, <2>3, EmptySeq
<1>5. c.order \o <<>> = c.order
  BY <1>1, ConcatEmptySeq
<1> QED  BY <1>1, <1>2, <1>4, <1>5 DEF Ordered

(* Whole rows that the order keeps together stand as in the order. *)
LEMMA GatheredStand ==
    ASSUME NEW c, SettingsOK(c), NEW all \in SUBSET Names, NEW S \in SUBSET all,
           NEW o, o = Ordered(c, all),
           \A x \in S, m \in all : Together(c.group, m, x) => m \in S,
           \A x, y, z \in S : Prec(o, x, y) /\ Prec(o, y, z) /\ Together(c.group, x, z) => Together(c.group, x, y)
    PROVE  \A x, y \in S : Prec(o, x, y) => Prec(Display(c, all), x, y)
<1> DEFINE g == c.group
<1>1. SUFFICES ASSUME NEW x \in S, NEW y \in S, Prec(o, x, y), ~Together(g, x, y)
               PROVE  Prec(Display(c, all), x, y)
  BY DisplayOrder
<1>2. Lists(o, all) /\ \A n : n \in Range(o) <=> n \in all
  BY OrderedLists DEF Lists
<1>3. PICK hx \in all : IsHead(o, g, hx, x)
  BY <1>2, HeadThere
<1>4. PICK hy \in all : IsHead(o, g, hy, y)
  BY <1>2, HeadThere
<1>5. /\ Together(g, hx, x) /\ (x = hx \/ Prec(o, hx, x)) /\ hx \in S
      /\ Together(g, hy, y) /\ (y = hy \/ Prec(o, hy, y)) /\ hy \in S
  BY <1>2, <1>3, <1>4 DEF IsHead, Together
<1> HIDE DEF g
<1>6. Prec(o, x, hy)
  <2>1. x # hy
    BY <1>1, <1>5 DEF Together
  <2>2. SUFFICES ASSUME Prec(o, hy, x) PROVE FALSE
    BY <1>2, <2>1, ListOrder
  <2>3. Together(g, hy, x)
    BY <1>1, <1>5, <2>2 DEF g
  <2> QED  BY <1>1, <1>5, <2>1, <2>3 DEF Together
<1>7. Prec(o, hx, hy)
  BY <1>2, <1>5, <1>6, ListOrder
<1> QED  BY <1>1, <1>3, <1>4, <1>7, DisplayOrder DEF g

LEMMA GatheredOrdered ==
    ASSUME NEW c, SettingsOK(c), NEW all \in SUBSET Names, Gathered(Ordered(c, all), c.group)
    PROVE  Display(c, all) = Ordered(c, all)
<1> DEFINE o == Ordered(c, all)
<1>1. Lists(o, all) /\ Lists(Display(c, all), all)
  BY OrderedLists, DisplayLists
<1>2. \A x, y, z \in all : Prec(o, x, y) /\ Prec(o, y, z) /\ Together(c.group, x, z) => Together(c.group, x, y)
  BY DEF Gathered
<1> HIDE DEF o
<1>3. \A x, y \in all : Prec(o, x, y) => Prec(Display(c, all), x, y)
  BY <1>2, GatheredStand DEF o
<1>4. o = Display(c, all)
  BY <1>1, <1>3, SameLists
<1> QED  BY <1>4 DEF o

(* The settings that an operation leaves show what it asked for. *)
LEMMA GatheredDisplay ==
    ASSUME NEW c, SettingsOK(c), NEW all \in SUBSET Names, Lists(c.order, all), Gathered(c.order, c.group)
    PROVE  Display(c, all) = c.order
  BY OrderedWhole, GatheredOrdered
-----------------------------------------------------------------------------
(* What the operations on the settings show and keep.                      *)

(* Rows that are shifted keep groups together and, but for the shifted     *)
(* row, their order.                                                       *)
LEMMA ShiftedGathers ==
    ASSUME NEW slots, NEW all \in SUBSET Names, Rows(slots, all), NEW g, Classes(slots, g),
           NEW pos \in DOMAIN slots, NEW to \in Int, NEW ns, Range(slots[pos].names) \subseteq ns
    PROVE  LET o == Flat(Shifted(slots, pos, to))
           IN Lists(o, all) /\ Gathered(o, g) /\ Others(o, ns) = Others(Flat(slots), ns)
<1> DEFINE r == Shifted(slots, pos, to)
<1>1. slots \in Seq(Slots) /\ pos \in 1 .. Len(slots)
  BY DEF Rows
<1>2. r \in Seq(Slots) /\ DOMAIN r = DOMAIN slots /\ Rearranged(slots, r) /\ KeepsOrder(slots, r, pos)
  BY <1>1, ShiftedFacts
<1>3. Rows(r, all)
  BY ShiftedRows
<1> HIDE DEF r
<1>4. PICK f \in [DOMAIN slots -> DOMAIN slots] :
        /\ \A i \in DOMAIN slots : r[i] = slots[f[i]]
        /\ \A i, j \in DOMAIN slots : f[i] = f[j] => i = j
        /\ \A k \in DOMAIN slots : \E i \in DOMAIN slots : f[i] = k
  BY <1>2 DEF Rearranged
<1>5. Classes(r, g)
  <2>1. ASSUME NEW i \in DOMAIN r, NEW x \in Range(r[i].names), NEW y \in Range(r[i].names)
        PROVE  g[x] = r[i].id /\ Together(g, x, y)
    <3>1. PICK k \in DOMAIN slots : r[i] = slots[k]
      BY <1>2, <1>4
    <3>2. x \in Range(slots[k].names) /\ y \in Range(slots[k].names)
      BY <3>1
    <3>3. g[x] = slots[k].id /\ Together(g, x, y)
      BY <3>2 DEF Classes
    <3> QED  BY <3>1, <3>3
  <2>2. ASSUME NEW i \in DOMAIN r, NEW j \in DOMAIN r, r[i].id = r[j].id, r[i].id # Nobody
        PROVE  i = j
    <3>1. f[i] \in DOMAIN slots /\ r[i] = slots[f[i]] /\ f[j] \in DOMAIN slots /\ r[j] = slots[f[j]]
      BY <1>2, <1>4
    <3>2. f[i] = f[j]
      BY <2>2, <3>1 DEF Classes
    <3> QED  BY <1>2, <1>4, <3>2
  <2> QED  BY <2>1, <2>2 DEF Classes
<1>6. Lists(Flat(r), all) /\ Gathered(Flat(r), g) /\ Lists(Flat(slots), all)
  BY <1>3, <1>5, FlatLists, FlatGathered
<1>7. ASSUME NEW x \in all \ ns, NEW y \in all \ ns, Prec(Flat(slots), x, y) PROVE Prec(Flat(r), x, y)
  <2>1. PICK i, j \in DOMAIN slots : x \in Range(slots[i].names) /\ y \in Range(slots[j].names)
    BY DEF Rows
  <2>2. i # pos /\ j # pos
    BY <1>7, <2>1
  <2>3. CASE i < j
    <3>1. PICK k, l \in DOMAIN r : k < l /\ r[k] = slots[i] /\ r[l] = slots[j]
      BY <1>2, <2>2, <2>3 DEF KeepsOrder
    <3>2. x \in Range(r[k].names) /\ y \in Range(r[l].names)
      BY <2>1, <3>1
    <3> QED  BY <1>3, <3>1, <3>2, FlatOrder
  <2>4. CASE i = j /\ Prec(slots[i].names, x, y)
    <3>1. PICK k \in DOMAIN r : r[k] = slots[i]
      BY <1>2, <1>4
    <3>2. x \in Range(r[k].names) /\ y \in Range(r[k].names) /\ Prec(r[k].names, x, y)
      BY <2>1, <2>4, <3>1
    <3> QED  BY <1>3, <3>2, FlatOrder
  <2> QED  BY <1>7, <2>1, <2>3, <2>4, FlatOrder
<1>8. Others(Flat(r), ns) = Others(Flat(slots), ns)
  <2>1. \A x, y \in all \ ns : Prec(Flat(slots), x, y) => Prec(Flat(r), x, y)
    BY <1>7
  <2> QED  BY <1>6, <2>1, SameOthers
<1> QED  BY <1>6, <1>8 DEF r

(* o is a list in which some of those of ns have moved, groups together.   *)
Rearranges(o, c, all, ns) ==
    Lists(o, all) /\ Gathered(o, c.group) /\ Others(o, ns) = Others(Display(c, all), ns)

LEMMA DisplayRearranges ==
    ASSUME NEW c, SettingsOK(c), NEW all \in SUBSET Names, NEW ns
    PROVE  Rearranges(Display(c, all), c, all, ns)
  BY DisplayLists, DisplayGathers DEF Rearranges

LEMMA ShiftedShows ==
    ASSUME NEW c, SettingsOK(c), NEW all \in SUBSET Names, NEW slots, slots = Layout(c, all),
           NEW row \in SUBSET DOMAIN slots, NEW ns, \A i \in row : Range(slots[i].names) \subseteq ns,
           NEW to \in {"up", "down", "top", "bottom"}
    PROVE  LET pos == CHOOSE i \in row : TRUE
           IN Rearranges(Flat(IF row = {} THEN slots ELSE Shifted(slots, pos, Target(to, pos, Len(slots)))),
                         c, all, ns)
<1> DEFINE pos == CHOOSE i \in row : TRUE
<1>0. Rows(slots, all) /\ Classes(slots, c.group) /\ Flat(slots) = Display(c, all)
  BY LayoutRows DEF Display
<1>1. CASE row = {}
  BY <1>0, <1>1, DisplayRearranges
<1>2. CASE row # {}
  <2>1. pos \in DOMAIN slots /\ Range(slots[pos].names) \subseteq ns
    BY <1>2
  <2> HIDE DEF pos
  <2>2. pos \in Int /\ Len(slots) \in Int
    BY <1>0, <2>1 DEF Rows
  <2>3. Target(to, pos, Len(slots)) \in Int
    BY <2>2, TargetTyped
  <2> DEFINE o == Flat(Shifted(slots, pos, Target(to, pos, Len(slots))))
  <2>4. Lists(o, all) /\ Gathered(o, c.group) /\ Others(o, ns) = Others(Flat(slots), ns)
    BY <1>0, <2>1, <2>3, ShiftedGathers
  <2>5. Rearranges(o, c, all, ns)
    BY <1>0, <2>4 DEF Rearranges
  <2> QED  BY <1>2, <2>5 DEF pos
<1> QED  BY <1>1, <1>2

(* A workspace that moves, within its group or among the rows. *)
LEMMA MovedShows ==
    ASSUME NEW c, SettingsOK(c), NEW all \in SUBSET Names, NEW n,
           NEW to \in {"up", "down", "top", "bottom"}
    PROVE  \E o : Moved(c, n, all, to) = [c EXCEPT !.order = o] /\ Rearranges(o, c, all, {n})
<1> DEFINE slots == Layout(c, all)
           id == GroupOf(c, n)
           At(s) == {i \in DOMAIN s : s[i] = n}
           Within(s) == IF At(s) = {} THEN s
                        ELSE Shifted(s, Place(s, n), Target(to, Place(s, n), Len(s)))
           row == {i \in DOMAIN slots : slots[i].id = Nobody /\ slots[i].names = <<n>>}
           pos == CHOOSE i \in row : TRUE
           moved == IF row = {} THEN slots ELSE Shifted(slots, pos, Target(to, pos, Len(slots)))
           kept == [i \in DOMAIN slots |-> IF slots[i].id = id
                                           THEN [slots[i] EXCEPT !.names = Within(slots[i].names)]
                                           ELSE slots[i]]
           o == Flat(IF id # Nobody THEN kept ELSE moved)
<1>1. Moved(c, n, all, to) = [c EXCEPT !.order = o]
  BY DEF Moved
<1>2. Rows(slots, all) /\ Classes(slots, c.group) /\ Flat(slots) = Display(c, all)
  BY LayoutRows DEF Display
<1>6. Rearranges(Flat(moved), c, all, {n})
  <2>1. row \in SUBSET DOMAIN slots /\ \A i \in row : Range(slots[i].names) \subseteq {n}
    <3> HIDE DEF slots
    <3> QED  BY DEF Range
  <2> HIDE DEF row
  <2> QED  BY <2>1, ShiftedShows
<1> HIDE DEF slots, id, moved
<1>3. ASSUME NEW s \in Seq(Names), IsInjective(s)
      PROVE  /\ Within(s) \in Seq(Names) /\ IsInjective(Within(s))
             /\ \A x : x \in Range(Within(s)) <=> x \in Range(s)
             /\ \A x, y : x # n /\ y # n /\ Prec(s, x, y) => Prec(Within(s), x, y)
  <2>1. CASE At(s) = {}
    BY <1>3, <2>1
  <2>2. CASE At(s) # {}
    <3> DEFINE p == Place(s, n)
               t == Target(to, p, Len(s))
    <3>1. p \in 1 .. Len(s) /\ Len(s) \in Int /\ s[p] = n
      <4>1. n \in Range(s)
        BY <2>2 DEF Range
      <4> QED  BY <4>1, PlaceThere
    <3> HIDE DEF p
    <3>2. t \in Int
      <4>1. p \in Int /\ Len(s) \in Int
        BY <3>1
      <4> QED  BY <4>1, TargetTyped
    <3> HIDE DEF t
    <3>4. Within(s) = Shifted(s, p, t)
      BY <2>2 DEF p, t
    <3> DEFINE r == Shifted(s, p, t)
    <3>5. r \in Seq(Names) /\ DOMAIN r = DOMAIN s /\ Rearranged(s, r) /\ KeepsOrder(s, r, p)
      BY <3>1, <3>2, ShiftedFacts
    <3> HIDE DEF r
    <3>6. IsInjective(r) /\ \A x : x \in Range(r) <=> x \in Range(s)
      BY <1>3, <3>5, RearrangedFacts
    <3>7. ASSUME NEW x, NEW y, x # n, y # n, Prec(s, x, y) PROVE Prec(r, x, y)
      <4>1. PICK i, j \in DOMAIN s : i < j /\ s[i] = x /\ s[j] = y
        BY <3>7 DEF Prec
      <4>2. i # p /\ j # p
        BY <3>1, <3>7, <4>1
      <4> QED  BY <3>5, <4>1, <4>2 DEF Prec, KeepsOrder
    <3> QED  BY <3>4, <3>5, <3>6, <3>7 DEF r
  <2> QED  BY <2>1, <2>2
<1> HIDE DEF Within
<1>4. /\ kept \in Seq(Slots) /\ DOMAIN kept = DOMAIN slots
      /\ \A i \in DOMAIN slots :
            /\ kept[i].id = slots[i].id /\ IsInjective(kept[i].names)
            /\ \A x : x \in Range(kept[i].names) <=> x \in Range(slots[i].names)
            /\ \A x, y : x # n /\ y # n /\ Prec(slots[i].names, x, y) => Prec(kept[i].names, x, y)
  <2>1. /\ slots \in Seq(Slots) /\ DOMAIN slots = 1 .. Len(slots) /\ Len(slots) \in Nat
        /\ \A i \in DOMAIN slots : IsInjective(slots[i].names)
    BY <1>2 DEF Rows, Apart, NamesOf
  <2>2. ASSUME NEW i \in DOMAIN slots
        PROVE  /\ kept[i] \in Slots /\ kept[i].id = slots[i].id /\ IsInjective(kept[i].names)
               /\ \A x : x \in Range(kept[i].names) <=> x \in Range(slots[i].names)
               /\ \A x, y : x # n /\ y # n /\ Prec(slots[i].names, x, y) => Prec(kept[i].names, x, y)
    <3>1. slots[i] \in Slots /\ slots[i].names \in Seq(Names) /\ IsInjective(slots[i].names)
      <4>1. slots[i] \in Slots /\ IsInjective(slots[i].names)
        BY <2>1
      <4> QED  BY <4>1 DEF Slots
    <3> DEFINE s == slots[i].names
    <3>2. /\ Within(s) \in Seq(Names) /\ IsInjective(Within(s))
          /\ \A x : x \in Range(Within(s)) <=> x \in Range(s)
          /\ \A x, y : x # n /\ y # n /\ Prec(s, x, y) => Prec(Within(s), x, y)
      BY <1>3, <3>1
    <3>3. kept[i] = [slots[i] EXCEPT !.names = Within(s)] \/ kept[i] = slots[i]
      OBVIOUS
    <3> HIDE DEF kept
    <3>4. CASE kept[i] = [slots[i] EXCEPT !.names = Within(s)]
      <4>1. kept[i] \in Slots /\ kept[i].names = Within(s) /\ kept[i].id = slots[i].id
        BY <3>1, <3>2, <3>4 DEF Slots
      <4> QED  BY <3>2, <4>1
    <3>5. CASE kept[i] = slots[i]
      BY <3>1, <3>5
    <3> QED  BY <3>3, <3>4, <3>5
  <2>3. kept = [i \in 1 .. Len(slots) |-> kept[i]] /\ DOMAIN kept = DOMAIN slots
    BY <2>1
  <2> HIDE DEF kept
  <2>4. kept \in [1 .. Len(slots) -> Slots]
    BY <2>1, <2>2, <2>3
  <2>5. kept \in Seq(Slots)
    BY <2>1, <2>4
  <2> QED  BY <2>2, <2>3, <2>5
<1> HIDE DEF kept
<1>5. Rows(kept, all)
  BY <1>2, <1>4, WithinRows
<1>7. Classes(kept, c.group)
  <2>1. ASSUME NEW i \in DOMAIN kept, NEW x \in Range(kept[i].names), NEW y \in Range(kept[i].names)
        PROVE  c.group[x] = kept[i].id /\ Together(c.group, x, y)
    <3>1. i \in DOMAIN slots /\ kept[i].id = slots[i].id /\ x \in Range(slots[i].names) /\ y \in Range(slots[i].names)
      BY <1>4
    <3> QED  BY <1>2, <3>1 DEF Classes
  <2>2. ASSUME NEW i \in DOMAIN kept, NEW j \in DOMAIN kept, kept[i].id = kept[j].id, kept[i].id # Nobody
        PROVE  i = j
    BY <1>2, <1>4, <2>2 DEF Classes
  <2> QED  BY <2>1, <2>2 DEF Classes
<1>8. Rearranges(Flat(kept), c, all, {n})
  <2>1. Lists(Flat(kept), all) /\ Gathered(Flat(kept), c.group) /\ Lists(Flat(slots), all)
    BY <1>2, <1>5, <1>7, FlatLists, FlatGathered
  <2>2. ASSUME NEW x \in all \ {n}, NEW y \in all \ {n}, Prec(Flat(slots), x, y) PROVE Prec(Flat(kept), x, y)
    <3>1. PICK i, j \in DOMAIN slots : x \in Range(slots[i].names) /\ y \in Range(slots[j].names)
      BY <1>2 DEF Rows
    <3>2. i < j \/ (i = j /\ Prec(slots[i].names, x, y))
      BY <1>2, <2>2, <3>1, FlatOrder
    <3>3. /\ i \in DOMAIN kept /\ j \in DOMAIN kept
          /\ x \in Range(kept[i].names) /\ y \in Range(kept[j].names)
          /\ i = j /\ Prec(slots[i].names, x, y) => Prec(kept[i].names, x, y)
      BY <1>4, <3>1
    <3> QED  BY <1>5, <3>2, <3>3, FlatOrder
  <2>3. Others(Flat(kept), {n}) = Others(Flat(slots), {n})
    <3>1. \A x, y \in all \ {n} : Prec(Flat(slots), x, y) => Prec(Flat(kept), x, y)
      BY <2>2
    <3> QED  BY <2>1, <3>1, SameOthers
  <2> QED  BY <1>2, <2>1, <2>3 DEF Rearranges
<1>9. Rearranges(o, c, all, {n})
  BY <1>6, <1>8
<1> HIDE DEF o
<1> QED  BY <1>1, <1>9

MembersOf(c, id, all) == {n \in all : c.group[n] = id}

(* A group that moves. *)
LEMMA GroupMovedShows ==
    ASSUME NEW c, SettingsOK(c), NEW all \in SUBSET Names, NEW id,
           NEW to \in {"up", "down", "top", "bottom"}
    PROVE  \E o : GroupMoved(c, id, all, to) = [c EXCEPT !.order = o] /\ Rearranges(o, c, all, MembersOf(c, id, all))
<1> DEFINE slots == Layout(c, all)
           ns == MembersOf(c, id, all)
           row == {i \in DOMAIN slots : slots[i].id = id}
           pos == CHOOSE i \in row : TRUE
           o == Flat(IF row = {} THEN slots ELSE Shifted(slots, pos, Target(to, pos, Len(slots))))
<1>1. GroupMoved(c, id, all, to) = [c EXCEPT !.order = o]
  BY DEF GroupMoved
<1>2. Rows(slots, all) /\ Classes(slots, c.group)
  BY LayoutRows
<1>3. row \in SUBSET DOMAIN slots
  OBVIOUS
<1>4. ASSUME NEW i \in row, NEW x \in Range(slots[i].names) PROVE x \in ns
  <2>1. i \in DOMAIN slots /\ slots[i].id = id
    OBVIOUS
  <2> HIDE DEF slots
  <2>2. x \in all /\ c.group[x] = id
    BY <1>2, <2>1 DEF Rows, Classes
  <2> QED  BY <2>2 DEF MembersOf
<1>5. Rearranges(o, c, all, ns)
  <2>1. \A i \in row : Range(slots[i].names) \subseteq ns
    BY <1>4
  <2> HIDE DEF row
  <2> QED  BY <1>3, <2>1, ShiftedShows
<1> HIDE DEF o
<1> QED  BY <1>1, <1>5

LEMMA UsedTidy ==
    ASSUME NEW c, SettingsOK(c)
    PROVE  /\ Tidy(Used(c)) /\ Used(c).order = c.order /\ Used(c).group = c.group
           /\ Used(c).marked = c.marked
           /\ Used(c).groups = {id \in c.groups : \E n \in Names : c.group[n] = id}
<1> DEFINE gs == {id \in c.groups : \E n \in Names : c.group[n] = id}
<1>1. Used(c) = [c EXCEPT !.groups = gs]
  BY DEF Used
<1>2. c \in Configs /\ gs \subseteq Groups
  BY DEF SettingsOK, Configs
<1> DEFINE d == [c EXCEPT !.groups = gs]
<1> HIDE DEF gs
<1>3. /\ d \in Configs /\ d.order = c.order /\ d.group = c.group
      /\ d.marked = c.marked /\ d.groups = gs
  BY <1>2 DEF Configs
<1> HIDE DEF d
<1>4. Tidy(d)
  BY <1>3 DEF Tidy, SettingsOK, gs
<1> QED  BY <1>1, <1>3, <1>4 DEF d, gs

(* A set of numbers up to a bound has a greatest, if it has some.          *)
LEMMA GreatestOf ==
    ASSUME NEW k \in Nat, NEW S \in SUBSET (1 .. k), S # {}
    PROVE  \E i \in S : \A j \in S : j <= i
<1> DEFINE D == {d \in Nat : \E i \in S : d = k - i}
<1>1. D \in SUBSET Nat /\ D # {}
  <2>1. PICK i \in S : TRUE
    OBVIOUS
  <2>2. k - i \in D
    BY <2>1
  <2> QED  BY <2>2
<1>2. PICK least \in D : \A d \in D : least <= d
  <2> HIDE DEF D
  <2> QED  BY <1>1, LeastOf
<1>3. PICK i \in S : least = k - i
  BY <1>2
<1>4. \A j \in S : j <= i
  <2>1. \A j \in S : k - j \in D
    OBVIOUS
  <2> HIDE DEF D
  <2> QED  BY <1>2, <1>3, <2>1
<1> QED  BY <1>4

(* A name put into a list: after those before its place, before the others.*)
LEMMA PrecInserted ==
    ASSUME NEW T, NEW s \in Seq(T), NEW pos \in 1 .. Len(s) + 1, NEW e \in T,
           NEW r, r = InsertAt(s, pos, e)
    PROVE  /\ \A x, y : Prec(s, x, y) => Prec(r, x, y)
           /\ \A i \in 1 .. Len(s) : IF i < pos THEN Prec(r, s[i], e) ELSE Prec(r, e, s[i])
<1> DEFINE n == Len(s)
           new(i) == IF i < pos THEN i ELSE i + 1
<1>1. /\ r \in Seq(T) /\ Len(r) = n + 1
      /\ \A i \in 1 .. n + 1 : r[i] = IF i < pos THEN s[i] ELSE IF i = pos THEN e ELSE s[i - 1]
  <2>1. r \in Seq(T) /\ HasIn(r, s, pos, e)
    BY InsertAtFacts
  <2> QED  BY <2>1 DEF HasIn
<1>2. n \in Nat /\ DOMAIN s = 1 .. n /\ DOMAIN r = 1 .. n + 1 /\ pos \in 1 .. n + 1
  BY <1>1
<1> HIDE DEF n
<1>3. ASSUME NEW i \in 1 .. n
      PROVE  new(i) \in 1 .. n + 1 /\ r[new(i)] = s[i] /\ (i < pos <=> new(i) < pos) /\ new(i) # pos
  <2>1. CASE i < pos
    BY <1>1, <1>2, <2>1
  <2>2. CASE ~(i < pos)
    <3>1. new(i) = i + 1 /\ i + 1 \in 1 .. n + 1 /\ ~(i + 1 < pos) /\ i + 1 # pos /\ (i + 1) - 1 = i
      BY <1>2, <2>2
    <3> QED  BY <1>1, <2>2, <3>1
  <2> QED  BY <2>1, <2>2
<1>4. \A i, j \in 1 .. n : i < j => new(i) < new(j)
  BY <1>2
<1> HIDE DEF new
<1>5. r[pos] = e
  BY <1>1, <1>2
<1>6. ASSUME NEW x, NEW y, Prec(s, x, y) PROVE Prec(r, x, y)
  <2>1. PICK i, j \in 1 .. n : i < j /\ s[i] = x /\ s[j] = y
    BY <1>2, <1>6 DEF Prec
  <2> QED  BY <1>2, <1>3, <1>4, <2>1 DEF Prec
<1>7. ASSUME NEW i \in 1 .. n PROVE IF i < pos THEN Prec(r, s[i], e) ELSE Prec(r, e, s[i])
  <2>1. new(i) \in DOMAIN r /\ pos \in DOMAIN r /\ r[new(i)] = s[i] /\ (i < pos <=> new(i) < pos) /\ new(i) # pos
    BY <1>2, <1>3
  <2>2. i < pos => new(i) < pos
    BY <2>1
  <2>3. ~(i < pos) => pos < new(i)
    BY <1>2, <2>1
  <2> QED  BY <1>5, <2>1, <2>2, <2>3 DEF Prec
<1> QED  BY <1>6, <1>7 DEF n

(* d is c after n has joined a group, as its last, or left one, below it:  *)
(* nobody else has moved.                                                  *)
Joins(d, c, n, group, all) ==
    LET anchor == IF group # Nobody THEN group ELSE c.group[n]
    IN /\ Tidy(d) /\ d.group = [c.group EXCEPT ![n] = group]
       /\ Lists(d.order, all) /\ Gathered(d.order, d.group)
       /\ Others(d.order, {n}) = Others(Display(c, all), {n})
       /\ \A m \in all \ {n} : d.group[m] = anchor => Prec(d.order, m, n)

LEMMA GroupedShows ==
    ASSUME NEW c, SettingsOK(c), NEW n \in Names, NEW id, NEW asked \in SUBSET Names,
           NEW group, group = IF id \in c.groups THEN id ELSE Nobody, group # c.group[n]
    PROVE  Joins(Grouped(c, n, id, asked), c, n, group, asked \cup {n})
<1> DEFINE anchor == IF group # Nobody THEN group ELSE c.group[n]
<1> DEFINE all == asked \cup {n}
           was == GroupOf(c, n)
           into == IF id \in c.groups THEN id ELSE Nobody
           shown == Display(c, all)
           order == Among(shown, Names \ {n})
           by == IF into # Nobody THEN into ELSE was
           below == {i \in DOMAIN order : by # Nobody /\ GroupOf(c, order[i]) = by}
           pos == IF below # {} THEN (CHOOSE i \in below : \A j \in below : j <= i) + 1
                  ELSE Clamp(Place(shown, n), 1, Len(order) + 1)
           o == InsertAt(order, pos, n)
           g == [c.group EXCEPT ![n] = into]
           in == [c EXCEPT !.group = g, !.order = o]
           put == [in EXCEPT !.order = Display(in, all)]
<1>1. Grouped(c, n, id, asked) = IF was = into THEN c ELSE Used(put)
  BY DEF Grouped
<1>2. \A m \in Names : GroupOf(c, m) = c.group[m] /\ c.group[m] \in Groups \cup {Nobody}
  BY DEF GroupOf, SettingsOK, Configs
<1>3. into = group /\ was = c.group[n] /\ was # into /\ by = anchor /\ (group # Nobody => group = anchor)
  BY <1>2
<1>4. /\ c \in Configs /\ all \in SUBSET Names /\ group \in c.groups \cup {Nobody} /\ c.groups \subseteq Groups
      /\ anchor # Nobody /\ n \in all
  BY <1>3 DEF SettingsOK, Configs
<1> HIDE DEF into, was, by, anchor
<1>5. Lists(shown, all) /\ Gathered(shown, c.group) /\ shown \in Seq(Names) /\ IsInjective(shown) /\ n \in Range(shown)
  BY <1>4, DisplayLists, DisplayGathers DEF Lists
<1> HIDE DEF shown
<1>6. /\ order \in Seq(Names) /\ IsInjective(order) /\ n \notin Range(order)
      /\ \A x : x \in Range(order) <=> x \in all /\ x # n
      /\ \A x, y : Prec(order, x, y) <=> Prec(shown, x, y) /\ x # n /\ y # n
  <2>1. /\ order \in Seq(Names) /\ IsInjective(order)
        /\ \A x : x \in Range(order) <=> x \in Range(shown) /\ x \in Names \ {n}
        /\ \A x, y : Prec(order, x, y) <=> Prec(shown, x, y) /\ x \in Names \ {n} /\ y \in Names \ {n}
    BY <1>5, AmongFacts, PrecAmong
  <2>2. \A x : x \in Range(shown) <=> x \in all
    BY <1>5 DEF Lists
  <2>3. \A x, y : Prec(shown, x, y) => x \in Names /\ y \in Names
    BY <1>4, <1>5, ListOrder
  <2> HIDE DEF order, all
  <2> QED  BY <1>4, <2>1, <2>2, <2>3
<1> HIDE DEF order, all
<1>7. Len(order) \in Nat /\ DOMAIN order = 1 .. Len(order) /\ below \in SUBSET (1 .. Len(order))
  BY <1>6
<1>8. \A i \in DOMAIN order : i \in below <=> c.group[order[i]] = anchor
  <2>1. \A i \in DOMAIN order : order[i] \in Names
    BY <1>6
  <2> QED  BY <1>2, <1>3, <1>4, <2>1
<1> HIDE DEF below
<1>9. below # {} =>
        \E last \in below : pos = last + 1 /\ \A j \in below : j <= last
  <2>1. SUFFICES ASSUME below # {} PROVE \E last \in below : pos = last + 1 /\ \A j \in below : j <= last
    OBVIOUS
  <2>2. \E i \in below : \A j \in below : j <= i
    BY <1>7, <2>1, GreatestOf
  <2> DEFINE last == CHOOSE i \in below : \A j \in below : j <= i
  <2>3. last \in below /\ \A j \in below : j <= last
    BY <2>2
  <2>4. pos = last + 1
    BY <2>1
  <2> HIDE DEF last, pos
  <2> QED  BY <2>3, <2>4
<1>10. pos \in 1 .. Len(order) + 1
  <2>1. Place(shown, n) \in Int
    <3>1. Place(shown, n) \in DOMAIN shown
      BY <1>5, PlaceThere
    <3> QED  BY <1>5, <3>1
  <2>2. CASE below # {}
    <3> HIDE DEF pos
    <3> QED  BY <1>7, <1>9, <2>2
  <2>3. CASE below = {}
    <3>1. pos = Clamp(Place(shown, n), 1, Len(order) + 1)
      BY <2>3
    <3> HIDE DEF pos
    <3> QED  BY <1>7, <2>1, <3>1 DEF Clamp
  <2> QED  BY <2>2, <2>3
<1> HIDE DEF pos
<1>11. o \in Seq(Names) /\ IsInjective(o) /\ \A x : x \in Range(o) <=> x \in Range(order) \/ x = n
  BY <1>6, <1>10, InsertedFacts
<1>12. /\ \A x, y : Prec(order, x, y) => Prec(o, x, y)
       /\ \A i \in 1 .. Len(order) : IF i < pos THEN Prec(o, order[i], n) ELSE Prec(o, n, order[i])
  BY <1>6, <1>10, PrecInserted
<1> HIDE DEF o
<1>13. Lists(o, all)
  BY <1>4, <1>6, <1>11 DEF Lists
<1>14. g \in [Names -> Groups \cup {Nobody}] /\ \A m \in Names : g[m] = IF m = n THEN group ELSE c.group[m]
  BY <1>3, <1>4 DEF Configs
<1>15. g = [c.group EXCEPT ![n] = group]
  BY <1>3
<1> HIDE DEF g
<1>16. in \in Configs /\ in.order = o /\ in.group = g /\ in.groups = c.groups
  BY <1>4, <1>11, <1>14 DEF Configs
<1> HIDE DEF in
<1>17. SettingsOK(in)
  BY <1>4, <1>11, <1>14, <1>16 DEF SettingsOK
<1> DEFINE D == Display(in, all)
<1>18. Lists(D, all) /\ Gathered(D, g) /\ Ordered(in, all) = o
  BY <1>4, <1>13, <1>16, <1>17, DisplayLists, DisplayGathers, OrderedWhole
<1>19. /\ put.order = D /\ put.group = g /\ put.groups = c.groups /\ SettingsOK(put)
  <2>1. SettingsOK(put)
    BY <1>17, <1>18, ReorderedOK
  <2> QED  BY <1>16, <2>1 DEF Configs
<1> HIDE DEF put
<1>20. LET d == Grouped(c, n, id, asked)
       IN d = Used(put) /\ Tidy(d) /\ d.order = D /\ d.group = g
  BY <1>1, <1>3, <1>19, UsedTidy
<1>21. ASSUME NEW m \in all, m # n
       PROVE  m \in Names /\ g[m] = c.group[m] /\ \E i \in 1 .. Len(order) : order[i] = m
  <2>1. m \in Range(order) /\ m \in Names
    BY <1>4, <1>6, <1>21
  <2>2. \E i \in DOMAIN order : order[i] = m
    BY <2>1 DEF Range
  <2> QED  BY <1>7, <1>14, <1>21, <2>1, <2>2
<1>22. \A x, y \in all : x # n /\ y # n /\ Prec(o, x, y) => Prec(order, x, y) /\ Prec(shown, x, y)
  <2>1. SUFFICES ASSUME NEW x \in all, NEW y \in all, x # n, y # n, Prec(o, x, y)
                 PROVE  Prec(order, x, y)
    BY <1>6
  <2>2. x \in Range(order) /\ y \in Range(order) /\ x # y /\ ~Prec(o, y, x)
    BY <1>6, <1>13, <2>1, ListOrder
  <2>3. Prec(order, x, y) \/ Prec(order, y, x)
    BY <1>6, <2>2, PrecOrders
  <2> QED  BY <1>12, <2>2, <2>3
<1>23. \A x, y \in all : x # n /\ y # n /\ Prec(shown, x, y) => Prec(o, x, y)
  BY <1>6, <1>12
<1>24. \A x, y, z \in all : x # n /\ y # n /\ z # n /\ Prec(o, x, y) /\ Prec(o, y, z) /\ Together(g, x, z)
                            => Together(g, x, y)
  <2>1. SUFFICES ASSUME NEW x \in all, NEW y \in all, NEW z \in all, x # n, y # n, z # n,
                        Prec(o, x, y), Prec(o, y, z), Together(g, x, z)
                 PROVE  Together(g, x, y)
    OBVIOUS
  <2>2. Prec(shown, x, y) /\ Prec(shown, y, z)
    BY <1>22, <2>1
  <2>3. g[x] = c.group[x] /\ g[y] = c.group[y] /\ g[z] = c.group[z] /\ x \in Names /\ y \in Names /\ z \in Names
    BY <1>21, <2>1
  <2>4. Together(c.group, x, z)
    BY <2>1, <2>3 DEF Together
  <2>5. Together(c.group, x, y)
    BY <1>5, <2>2, <2>3, <2>4 DEF Gathered
  <2> QED  BY <2>3, <2>5 DEF Together
<1> DEFINE Goal == /\ \A x, y \in all \ {n} : Prec(shown, x, y) => Prec(D, x, y)
                   /\ \A m \in all \ {n} : g[m] = anchor => Prec(D, m, n)
<1>25. ASSUME below = {} PROVE Goal
  <2> DEFINE S == all \ {n}
  <2>1. ASSUME NEW m \in S PROVE g[m] # anchor
    BY <1>7, <1>8, <1>21, <1>25
  <2>2. ASSUME NEW x \in S, NEW m \in all, Together(g, m, x) PROVE m \in S
    <3>1. SUFFICES ASSUME m = n PROVE FALSE
      OBVIOUS
    <3>2. g[n] = g[x] /\ g[n] # Nobody
      BY <2>2, <3>1 DEF Together
    <3>3. g[n] = group
      BY <1>14
    <3> QED  BY <1>3, <2>1, <3>2, <3>3
  <2>3. \A x, y \in S : Prec(o, x, y) => Prec(D, x, y)
    <3>1. S \in SUBSET all /\ (\A x \in S, m \in all : Together(in.group, m, x) => m \in S)
      BY <1>16, <2>2
    <3>2. \A x, y, z \in S : Prec(o, x, y) /\ Prec(o, y, z) /\ Together(in.group, x, z) => Together(in.group, x, y)
      BY <1>16, <1>24
    <3> HIDE DEF S
    <3> QED  BY <1>4, <1>17, <1>18, <3>1, <3>2, GatheredStand
  <2> HIDE DEF D
  <2> QED  BY <1>23, <2>1, <2>3
<1>26. ASSUME below # {} PROVE Goal
  <2>1. PICK last \in below : pos = last + 1 /\ \A j \in below : j <= last
    BY <1>9, <1>26
  <2> DEFINE k == order[last]
  <2>2. k \in all /\ k # n /\ c.group[k] = anchor /\ g[k] = anchor /\ last \in 1 .. Len(order)
    <3>1. last \in DOMAIN order /\ k \in Range(order)
      BY <1>7 DEF Range
    <3> HIDE DEF k
    <3> QED  BY <1>6, <1>7, <1>8, <1>21, <3>1 DEF k
  <2>3. ASSUME NEW m \in all, m # n, g[m] = anchor PROVE Prec(o, m, n)
    <3>1. PICK i \in 1 .. Len(order) : order[i] = m
      BY <1>21, <2>3
    <3>2. i \in below
      BY <1>7, <1>8, <1>21, <2>3, <3>1
    <3>3. i < pos
      BY <1>7, <2>1, <3>2
    <3> QED  BY <1>12, <3>1, <3>3
  <2>4. ASSUME NEW y \in all, Prec(o, n, y) PROVE Prec(o, k, y) /\ y # n
    <3>1. y # n /\ ~Prec(o, y, n)
      BY <1>13, <2>4, ListOrder
    <3>2. PICK j \in 1 .. Len(order) : order[j] = y
      BY <1>21, <3>1
    <3>3. ~(j < pos)
      BY <1>12, <3>1, <3>2
    <3>4. last < j
      BY <1>7, <2>1, <3>3
    <3>5. Prec(order, k, y)
      BY <1>7, <3>2, <3>4 DEF Prec
    <3> QED  BY <1>12, <3>1, <3>5
  <2>5. ASSUME NEW y \in all, Prec(o, y, n) PROVE y # n /\ (y = k \/ Prec(o, y, k))
    <3>1. y # n /\ ~Prec(o, n, y)
      BY <1>13, <2>5, ListOrder
    <3>2. PICK j \in 1 .. Len(order) : order[j] = y
      BY <1>21, <3>1
    <3>3. j < pos
      BY <1>12, <3>1, <3>2
    <3>4. j = last \/ j < last
      BY <1>7, <2>1, <3>3
    <3>5. j < last => Prec(order, y, k)
      BY <1>7, <3>2 DEF Prec
    <3> QED  BY <1>12, <3>1, <3>2, <3>4, <3>5
  <2> HIDE DEF k
  <2>6. Gathered(o, g)
    <3>1. SUFFICES ASSUME NEW x \in Names, NEW y \in Names, NEW z \in Names,
                          Prec(o, x, y), Prec(o, y, z), Together(g, x, z)
                   PROVE  Together(g, x, y)
      BY DEF Gathered
    <3>2. /\ x \in all /\ y \in all /\ z \in all /\ x # y /\ y # z /\ x # z
          /\ Prec(o, x, z) /\ ~Prec(o, z, x) /\ ~Prec(o, z, y) /\ ~Prec(o, y, x)
      BY <1>13, <3>1, ListOrder
    <3>3. g[x] = g[z] /\ g[x] # Nobody
      BY <3>1, <3>2 DEF Together
    <3>4. g[n] = group /\ (group # Nobody => group = anchor)
      BY <1>3, <1>14
    <3>5. CASE x = n
      <4>1. g[z] = anchor /\ z # n
        BY <3>2, <3>3, <3>4, <3>5
      <4>2. Prec(o, z, n)
        BY <2>3, <3>2, <4>1
      <4> QED  BY <3>2, <3>5, <4>2
    <3>6. CASE z = n
      <4>1. g[x] = anchor /\ x # n
        BY <3>2, <3>3, <3>4, <3>6
      <4>2. y # n /\ (y = k \/ Prec(o, y, k))
        BY <2>5, <3>1, <3>2, <3>6
      <4>3. Together(g, x, k)
        BY <1>4, <2>2, <4>1 DEF Together
      <4>4. y # k => Together(g, x, y)
        BY <1>24, <2>2, <3>1, <3>2, <4>1, <4>2, <4>3
      <4> QED  BY <4>3, <4>4
    <3>7. CASE y = n
      <4>1. x # n /\ z # n /\ Prec(o, x, n) /\ Prec(o, n, z)
        BY <3>1, <3>2, <3>7
      <4>2. g[x] # anchor
        BY <2>3, <3>2, <3>3, <3>7, <4>1
      <4>3. x # k /\ Prec(o, x, k)
        BY <2>2, <2>5, <3>2, <4>1, <4>2
      <4>4. Prec(o, k, z)
        BY <2>4, <3>2, <4>1
      <4>5. Together(g, x, k)
        BY <1>24, <2>2, <3>1, <3>2, <4>1, <4>3, <4>4
      <4> QED  BY <2>2, <4>2, <4>3, <4>5 DEF Together
    <3>8. CASE x # n /\ y # n /\ z # n
      BY <1>24, <3>1, <3>2, <3>8
    <3> QED  BY <3>5, <3>6, <3>7, <3>8
  <2>7. D = o
    BY <1>4, <1>13, <1>16, <1>17, <2>6, GatheredDisplay
  <2> HIDE DEF D
  <2> QED  BY <1>23, <2>3, <2>7
<1>27. Goal
  BY <1>25, <1>26
<1>28. Others(D, {n}) = Others(shown, {n})
  <2> HIDE DEF D
  <2> QED  BY <1>4, <1>5, <1>18, <1>27, SameOthers
<1> HIDE DEF D
<1> DEFINE d == Grouped(c, n, id, asked)
<1>29. /\ Tidy(d) /\ d.group = [c.group EXCEPT ![n] = group]
       /\ Lists(d.order, all) /\ Gathered(d.order, d.group)
       /\ Others(d.order, {n}) = Others(Display(c, all), {n})
       /\ \A m \in all \ {n} : d.group[m] = anchor => Prec(d.order, m, n)
  <2> HIDE DEF d
  <2>1. d.order = D /\ d.group = g /\ Tidy(d)
    BY <1>20 DEF d
  <2>2. shown = Display(c, all)
    BY DEF shown
  <2> QED  BY <1>15, <1>18, <1>27, <1>28, <2>1, <2>2
<1> HIDE DEF d
<1>30. Joins(d, c, n, group, all)
  BY <1>29 DEF Joins, anchor
<1> QED  BY <1>30 DEF d, all
-----------------------------------------------------------------------------
(* What the operations on the settings keep.                               *)

LEMMA MovedOK ==
    ASSUME NEW c, Tidy(c), NEW all \in SUBSET Names, NEW n,
           NEW to \in {"up", "down", "top", "bottom"}
    PROVE  Tidy(Moved(c, n, all, to))
<1>1. PICK o : Moved(c, n, all, to) = [c EXCEPT !.order = o] /\ Rearranges(o, c, all, {n})
  BY MovedShows DEF Tidy
<1> QED  BY <1>1, ReorderedOK DEF Rearranges

LEMMA GroupMovedOK ==
    ASSUME NEW c, Tidy(c), NEW all \in SUBSET Names, NEW id,
           NEW to \in {"up", "down", "top", "bottom"}
    PROVE  Tidy(GroupMoved(c, id, all, to))
<1>1. PICK o : GroupMoved(c, id, all, to) = [c EXCEPT !.order = o] /\ Rearranges(o, c, all, MembersOf(c, id, all))
  BY GroupMovedShows DEF Tidy
<1> QED  BY <1>1, ReorderedOK DEF Rearranges

(* Joining or leaving a group.  A new group that nobody is in yet is left  *)
(* out by it, or joined.                                                   *)
LEMMA GroupedTidy ==
    ASSUME NEW c, SettingsOK(c), NEW n \in Names, NEW id, NEW asked \in SUBSET Names,
           Tidy(c) \/ GroupOf(c, n) # (IF id \in c.groups THEN id ELSE Nobody)
    PROVE  Tidy(Grouped(c, n, id, asked))
<1> DEFINE group == IF id \in c.groups THEN id ELSE Nobody
<1>1. GroupOf(c, n) = c.group[n]
  BY DEF GroupOf, SettingsOK, Configs
<1>2. CASE GroupOf(c, n) = group
  BY <1>2 DEF Grouped
<1>3. CASE GroupOf(c, n) # group
  <2> HIDE DEF group
  <2>1. Joins(Grouped(c, n, id, asked), c, n, group, asked \cup {n})
    BY <1>1, <1>3, GroupedShows DEF group
  <2> QED  BY <2>1 DEF Joins
<1> QED  BY <1>2, <1>3

LEMMA RemovedTidy ==
    ASSUME NEW c, SettingsOK(c), NEW n \in Names
    PROVE  Tidy(Removed(c, n))
<1> DEFINE o == Among(c.order, Names \ {n})
           g == [c.group EXCEPT ![n] = Nobody]
           d == [c EXCEPT !.order = o, !.group = g, !.marked = c.marked \ {n}]
<1>1. Removed(c, n) = Used(d)
  BY DEF Removed
<1>2. c \in Configs /\ c.order \in Seq(Names) /\ IsInjective(c.order)
  BY DEF SettingsOK, Configs
<1>3. o \in Seq(Names) /\ IsInjective(o)
  BY <1>2, AmongFacts
<1> HIDE DEF o
<1>4. g \in [Names -> Groups \cup {Nobody}] /\ \A m \in Names : g[m] = IF m = n THEN Nobody ELSE c.group[m]
  BY <1>2 DEF Configs
<1> HIDE DEF g
<1>5. d \in Configs /\ d.order = o /\ d.group = g /\ d.groups = c.groups
  BY <1>2, <1>3, <1>4 DEF Configs
<1> HIDE DEF d
<1>6. SettingsOK(d)
  BY <1>3, <1>4, <1>5 DEF SettingsOK
<1> QED  BY <1>1, <1>6, UsedTidy

LEMMA UngroupedTidy ==
    ASSUME NEW c, Tidy(c), NEW id
    PROVE  Tidy(Ungrouped(c, id))
<1> DEFINE g == [n \in Names |-> IF c.group[n] = id THEN Nobody ELSE c.group[n]]
           d == [c EXCEPT !.groups = c.groups \ {id}, !.group = g]
<1>1. Ungrouped(c, id) = d
  BY DEF Ungrouped
<1>2. c \in Configs
  BY DEF Tidy, SettingsOK
<1>3. g \in [Names -> Groups \cup {Nobody}] /\ \A m \in Names : g[m] = IF c.group[m] = id THEN Nobody ELSE c.group[m]
  BY <1>2 DEF Configs
<1> HIDE DEF g
<1>4. d \in Configs /\ d.order = c.order /\ d.group = g /\ d.groups = c.groups \ {id}
  BY <1>2, <1>3 DEF Configs
<1> HIDE DEF d
<1>5. SettingsOK(d)
  BY <1>3, <1>4 DEF Tidy, SettingsOK
<1> QED  BY <1>1, <1>3, <1>4, <1>5 DEF Tidy

LEMMA MarkedTidy ==
    ASSUME NEW c, Tidy(c), NEW n \in Names, NEW on
    PROVE  Tidy(Marked(c, n, on))
<1> DEFINE k == IF on THEN c.marked \cup {n} ELSE c.marked \ {n}
           d == [c EXCEPT !.marked = k]
<1>1. Marked(c, n, on) = d
  BY DEF Marked
<1>2. c \in Configs
  BY DEF Tidy, SettingsOK
<1>3. k \subseteq Names
  BY <1>2 DEF Configs
<1> HIDE DEF k
<1>4. d \in Configs /\ d.order = c.order /\ d.group = c.group /\ d.groups = c.groups
  BY <1>2, <1>3 DEF Configs
<1> HIDE DEF d
<1> QED  BY <1>1, <1>4 DEF Tidy, SettingsOK

LEMMA GroupAddedOK ==
    ASSUME NEW c, Tidy(c), FreeIds(c) # {}
    PROVE  LET d == GroupAdded(c)
           IN /\ SettingsOK(d) /\ NewId(c) \in d.groups
              /\ \A n \in Names : GroupOf(d, n) # NewId(c)
<1> DEFINE new == NewId(c)
           d == [c EXCEPT !.groups = c.groups \cup {new}]
<1>1. c \in Configs
  BY DEF Tidy, SettingsOK
<1>2. new \in Groups /\ new \notin c.groups
  <2>1. FreeIds(c) \in SUBSET Nat
    BY ConfigsAssumption DEF FreeIds, Groups
  <2>2. \E i \in FreeIds(c) : \A j \in FreeIds(c) : i <= j
    BY <2>1, LeastOf
  <2>3. new \in FreeIds(c)
    BY <2>2 DEF NewId
  <2> QED  BY <2>3 DEF FreeIds
<1>3. GroupAdded(c) = d
  BY DEF GroupAdded
<1> HIDE DEF new
<1>4. d \in Configs /\ d.order = c.order /\ d.group = c.group /\ d.groups = c.groups \cup {new}
  BY <1>1, <1>2 DEF Configs
<1> HIDE DEF d
<1>5. SettingsOK(d)
  BY <1>4 DEF Tidy, SettingsOK
<1>6. ASSUME NEW n \in Names PROVE GroupOf(d, n) # new
  BY <1>2, <1>4, NobodyElse DEF GroupOf, Tidy, SettingsOK
<1> QED  BY <1>3, <1>4, <1>5, <1>6 DEF new

(* Rows that stay: two whose rows are the same in both settings stand in   *)
(* the same order.                                                         *)
LEMMA SameRows ==
    ASSUME NEW c, SettingsOK(c), NEW d, SettingsOK(d), NEW all \in SUBSET Names,
           Ordered(c, all) = Ordered(d, all), NEW x \in all, NEW y \in all,
           \A m \in all : /\ Together(c.group, m, x) <=> Together(d.group, m, x)
                          /\ Together(c.group, m, y) <=> Together(d.group, m, y),
           Prec(Display(c, all), x, y)
    PROVE  Prec(Display(d, all), x, y)
<1> DEFINE o == Ordered(c, all)
<1>1. Lists(o, all) /\ Lists(Display(c, all), all) /\ \A n : n \in Range(o) <=> n \in all
  BY OrderedLists, DisplayLists DEF Lists
<1>2. x # y /\ ~Prec(Display(c, all), y, x)
  BY <1>1, ListOrder
<1>0. o = Ordered(c, all) /\ o = Ordered(d, all)
  OBVIOUS
<1> HIDE DEF o
<1>3. CASE Together(c.group, x, y)
  <2>1. Together(c.group, y, x) /\ Together(d.group, x, y)
    BY <1>3 DEF Together
  <2>2. ~Prec(o, y, x)
    BY <1>0, <1>2, <2>1, DisplayOrder
  <2>3. Prec(o, x, y)
    BY <1>1, <1>2, <2>2, ListOrder
  <2> QED  BY <1>0, <2>1, <2>3, DisplayOrder
<1>4. CASE ~Together(c.group, x, y)
  <2>1. PICK hx \in all : IsHead(o, c.group, hx, x)
    BY <1>1, HeadThere
  <2>2. PICK hy \in all : IsHead(o, c.group, hy, y)
    BY <1>1, HeadThere
  <2>3. ~Together(c.group, y, x) /\ ~Together(d.group, x, y)
    BY <1>4 DEF Together
  <2>4. hx # hy
    <3>1. Together(c.group, hx, x) /\ Together(c.group, hy, y)
      BY <2>1, <2>2 DEF IsHead
    <3> QED  BY <1>4, <3>1 DEF Together
  <2>5. ~Prec(o, hy, hx)
    BY <1>0, <1>2, <2>1, <2>2, <2>3, DisplayOrder
  <2>6. Prec(o, hx, hy)
    BY <1>1, <2>4, <2>5, ListOrder
  <2>7. IsHead(o, d.group, hx, x) /\ IsHead(o, d.group, hy, y)
    BY <1>1, <2>1, <2>2 DEF IsHead
  <2> QED  BY <1>0, <2>3, <2>6, <2>7, DisplayOrder
<1> QED  BY <1>3, <1>4

(* The list of groups alone is not shown. *)
LEMMA GroupsAlone ==
    ASSUME NEW c, SettingsOK(c), NEW d, SettingsOK(d), c.order = d.order, c.group = d.group,
           NEW all \in SUBSET Names
    PROVE  Display(c, all) = Display(d, all)
<1>1. Ordered(c, all) = Ordered(d, all)
  BY DEF Ordered
<1>2. Lists(Display(c, all), all) /\ Lists(Display(d, all), all)
  BY DisplayLists
<1>3. \A x, y \in all : Prec(Display(c, all), x, y) => Prec(Display(d, all), x, y)
  BY <1>1, SameRows
<1> QED  BY <1>2, <1>3, SameLists

(* Whoever is in no place of its own stands at the end. *)
LEMMA OrderedGathered ==
    ASSUME NEW c, SettingsOK(c), NEW all \in SUBSET Names, Gathered(c.order, c.group),
           {n \in all : c.group[n] # Nobody} \subseteq Range(c.order)
    PROVE  Gathered(Ordered(c, all), c.group)
<1> DEFINE s == Among(c.order, all)
           t == Sorted(all \ Range(c.order))
           o == s \o t
<1>1. SUFFICES ASSUME NEW x \in Names, NEW y \in Names, NEW z \in Names,
                      Prec(o, x, y), Prec(o, y, z), Together(c.group, x, z)
               PROVE  Together(c.group, x, y)
  BY DEF Gathered, Ordered
<1>2. c.order \in Seq(Names)
  BY DEF SettingsOK, Configs
<1>3. s \in Seq(Names) /\ \A a, b : Prec(s, a, b) <=> Prec(c.order, a, b) /\ a \in all /\ b \in all
  BY <1>2, AmongFacts, PrecAmong
<1>4. t \in Seq(Names) /\ \A a : a \in Range(t) <=> a \in all \ Range(c.order)
  BY SortedLists DEF Lists
<1>5. Lists(o, all)
  BY OrderedLists DEF Ordered
<1>6. \A a, b : Prec(t, a, b) => b \in Range(t)
  BY DEF Prec, Range
<1> HIDE DEF s, t
<1>7. \A a, b : Prec(o, a, b) <=> Prec(s, a, b) \/ Prec(t, a, b) \/ (a \in Range(s) /\ b \in Range(t))
  BY <1>3, <1>4, PrecConcat
<1> HIDE DEF o
<1>8. /\ x \in all /\ y \in all /\ z \in all /\ x # z
      /\ Prec(o, x, z)
  BY <1>1, <1>5, ListOrder
<1>9. c.group[x] = c.group[z] /\ c.group[x] # Nobody
  BY <1>1, <1>8 DEF Together
<1>10. z \in Range(c.order) /\ z \notin Range(t)
  BY <1>4, <1>8, <1>9
<1>11. Prec(s, y, z)
  BY <1>1, <1>6, <1>7, <1>10
<1>12. y \in Range(c.order)
  <2>1. Prec(c.order, y, z)
    BY <1>3, <1>11
  <2> QED  BY <2>1 DEF Prec, Range
<1>13. Prec(s, x, y)
  BY <1>1, <1>4, <1>6, <1>7, <1>12
<1> QED  BY <1>1, <1>3, <1>11, <1>13 DEF Gathered

(* A group that is deleted. *)
LEMMA UngroupedFacts ==
    ASSUME NEW c, SettingsOK(c), NEW id
    PROVE  LET d == Ungrouped(c, id)
           IN /\ d.order = c.order /\ d.groups = c.groups \ {id}
              /\ \A n \in Names : d.group[n] = IF c.group[n] = id THEN Nobody ELSE c.group[n]
  BY DEF Ungrouped, SettingsOK, Configs

LEMMA UngroupedGathered ==
    ASSUME NEW c, SettingsOK(c), NEW id, Gathered(c.order, c.group)
    PROVE  Gathered(Ungrouped(c, id).order, Ungrouped(c, id).group)
<1> DEFINE d == Ungrouped(c, id)
<1>1. d.order = c.order /\ \A n \in Names : d.group[n] = IF c.group[n] = id THEN Nobody ELSE c.group[n]
  BY UngroupedFacts
<1> HIDE DEF d
<1>2. SUFFICES ASSUME NEW x \in Names, NEW y \in Names, NEW z \in Names,
                      Prec(c.order, x, y), Prec(c.order, y, z), Together(d.group, x, z)
               PROVE  Together(d.group, x, y)
  BY <1>1 DEF Gathered, d
<1>3. x # z
  <2>1. c.order \in Seq(Names) /\ IsInjective(c.order)
    BY DEF SettingsOK, Configs
  <2> QED  BY <1>2, <2>1, PrecOrders
<1>4. d.group[x] = d.group[z] /\ d.group[x] # Nobody
  BY <1>2, <1>3 DEF Together
<1>5. c.group[x] # id /\ c.group[x] = c.group[z] /\ c.group[x] # Nobody
  BY <1>1, <1>4
<1>6. Together(c.group, x, y)
  BY <1>2, <1>5 DEF Gathered, Together
<1> QED  BY <1>1, <1>5, <1>6 DEF Together

LEMMA UngroupedShows ==
    ASSUME NEW c, SettingsOK(c), NEW id, id # Nobody, NEW all \in SUBSET Names,
           NEW d, d = Ungrouped(c, id), SettingsOK(d)
    PROVE  /\ LET ns == {n \in all : c.group[n] = id}
              IN Others(Display(d, all), ns) = Others(Display(c, all), ns)
           /\ Gathered(c.order, c.group) /\ {n \in all : c.group[n] # Nobody} \subseteq Range(c.order)
                => Display(d, all) = Display(c, all)
<1> DEFINE ns == {n \in all : c.group[n] = id}
<1>1. d.order = c.order /\ \A n \in Names : d.group[n] = IF c.group[n] = id THEN Nobody ELSE c.group[n]
  BY UngroupedFacts
<1>2. Ordered(c, all) = Ordered(d, all)
  BY <1>1 DEF Ordered
<1>3. Lists(Display(c, all), all) /\ Lists(Display(d, all), all)
  BY DisplayLists
<1>4. ASSUME NEW x \in all \ ns, NEW m \in all
      PROVE  Together(c.group, m, x) <=> Together(d.group, m, x)
  <2>1. c.group[x] # id /\ d.group[x] = c.group[x]
    BY <1>1
  <2>2. d.group[m] = IF c.group[m] = id THEN Nobody ELSE c.group[m]
    BY <1>1
  <2> QED  BY <2>1, <2>2 DEF Together
<1>5. Others(Display(c, all), ns) = Others(Display(d, all), ns)
  <2>1. \A x, y \in all \ ns : Prec(Display(c, all), x, y) => Prec(Display(d, all), x, y)
    <3> HIDE DEF ns
    <3> QED  BY <1>2, <1>4, SameRows
  <2> HIDE DEF ns
  <2> QED  BY <1>3, <2>1, SameOthers
<1>6. ASSUME Gathered(c.order, c.group), {n \in all : c.group[n] # Nobody} \subseteq Range(c.order)
      PROVE  Display(d, all) = Display(c, all)
  <2>1. Gathered(d.order, d.group)
    BY <1>6, UngroupedGathered
  <2>2. {n \in all : d.group[n] # Nobody} \subseteq Range(d.order)
    BY <1>1, <1>6
  <2>3. Display(c, all) = Ordered(c, all)
    BY <1>6, OrderedGathered, GatheredOrdered
  <2>4. Display(d, all) = Ordered(d, all)
    BY <2>1, <2>2, OrderedGathered, GatheredOrdered
  <2> QED  BY <1>2, <2>3, <2>4
<1> QED  BY <1>5, <1>6

(* A workspace whose settings are dropped. *)
LEMMA RemovedGathered ==
    ASSUME NEW c, SettingsOK(c), NEW n \in Names, Gathered(c.order, c.group)
    PROVE  Gathered(Removed(c, n).order, Removed(c, n).group)
<1> DEFINE o == Among(c.order, Names \ {n})
           g == [c.group EXCEPT ![n] = Nobody]
           d == [c EXCEPT !.order = o, !.group = g, !.marked = c.marked \ {n}]
<1>1. Removed(c, n) = Used(d)
  BY DEF Removed
<1>2. c \in Configs /\ c.order \in Seq(Names)
  BY DEF SettingsOK, Configs
<1>3. \A x, y : Prec(o, x, y) <=> Prec(c.order, x, y) /\ x \in Names \ {n} /\ y \in Names \ {n}
  BY <1>2, PrecAmong
<1> HIDE DEF o
<1>4. \A m \in Names : m # n => g[m] = c.group[m]
  BY <1>2 DEF Configs
<1> HIDE DEF g
<1>5. d.order = o /\ d.group = g
  BY <1>2 DEF Configs
<1>6. Used(d).order = d.order /\ Used(d).group = d.group
  BY <1>2 DEF Used, Configs
<1> HIDE DEF d
<1>7. ASSUME NEW x \in Names, NEW y \in Names, NEW z \in Names,
             Prec(o, x, y), Prec(o, y, z), Together(g, x, z)
      PROVE  Together(g, x, y)
  <2>1. Prec(c.order, x, y) /\ Prec(c.order, y, z) /\ x # n /\ y # n /\ z # n
    BY <1>3, <1>7
  <2>2. g[x] = c.group[x] /\ g[y] = c.group[y] /\ g[z] = c.group[z]
    BY <1>4, <2>1
  <2>3. Together(c.group, x, z)
    BY <1>7, <2>2 DEF Together
  <2>4. Together(c.group, x, y)
    BY <2>1, <2>3 DEF Gathered
  <2> QED  BY <2>2, <2>4 DEF Together
<1>8. Gathered(o, g)
  BY <1>7 DEF Gathered
<1> QED  BY <1>1, <1>5, <1>6, <1>8

(* A workspace that joins or leaves a group. *)
LEMMA GroupedGathered ==
    ASSUME NEW c, SettingsOK(c), NEW n \in Names, NEW id, NEW asked \in SUBSET Names,
           Gathered(c.order, c.group)
    PROVE  Gathered(Grouped(c, n, id, asked).order, Grouped(c, n, id, asked).group)
<1> DEFINE group == IF id \in c.groups THEN id ELSE Nobody
           G == Grouped(c, n, id, asked)
<1>1. GroupOf(c, n) = c.group[n]
  BY DEF GroupOf, SettingsOK, Configs
<1>2. CASE c.group[n] = group
  <2>1. G = c
    BY <1>1, <1>2 DEF Grouped
  <2> QED  BY <2>1
<1>3. CASE c.group[n] # group
  <2> HIDE DEF group
  <2>1. Joins(G, c, n, group, asked \cup {n})
    BY <1>3, GroupedShows DEF group
  <2> QED  BY <2>1 DEF Joins
<1> QED  BY <1>2, <1>3
-----------------------------------------------------------------------------
(* The file and the copy.                                                  *)

(* The settings without the workspaces of gone.                            *)
Without(c, gone) ==
    Used([c EXCEPT !.order = Others(@, gone), !.marked = @ \ gone,
                   !.group = [n \in Names |-> IF n \in gone THEN Nobody ELSE @[n]]])

(* The front end is among the workspaces there are, and the file, if the   *)
(* copy c was saved, is c without the workspaces it has forgotten.         *)
Agrees(c, f) ==
    /\ FrontOK(f)
    /\ f.live \subseteq Names /\ f.active \in Names /\ f.forgotten \subseteq Names
    /\ Tidy(f.file)
    /\ f.unsaved \/ f.file = Without(c, f.forgotten)

SInv == IInv /\ Tidy(copy) /\ Agrees(copy, front)

LEMMA SameConfigs ==
    ASSUME NEW c \in Configs, NEW d \in Configs, c.order = d.order, c.group = d.group,
           c.marked = d.marked, c.groups = d.groups
    PROVE  c = d
  BY DEF Configs

(* d is c without those of gone. *)
LeavesOut(d, c, gone) ==
    /\ Tidy(d) /\ d.order = Among(c.order, Names \ gone) /\ d.marked = c.marked \ gone
    /\ d.group = [n \in Names |-> IF n \in gone THEN Nobody ELSE c.group[n]]
    /\ d.groups = {id \in c.groups : \E n \in Names : d.group[n] = id}

LEMMA WithoutFacts ==
    ASSUME NEW c, SettingsOK(c), NEW gone
    PROVE  LeavesOut(Without(c, gone), c, gone)
<1> DEFINE o == Among(c.order, Names \ gone)
           g == [n \in Names |-> IF n \in gone THEN Nobody ELSE c.group[n]]
           d == [c EXCEPT !.order = o, !.marked = c.marked \ gone, !.group = g]
<1>1. Without(c, gone) = Used(d)
  BY DEF Without, Others
<1>2. c \in Configs /\ c.order \in Seq(Names) /\ IsInjective(c.order)
  BY DEF SettingsOK, Configs
<1>3. o \in Seq(Names) /\ IsInjective(o)
  BY <1>2, AmongFacts
<1> HIDE DEF o
<1>4. g \in [Names -> Groups \cup {Nobody}] /\ \A m \in Names : g[m] = IF m \in gone THEN Nobody ELSE c.group[m]
  BY <1>2 DEF Configs
<1> HIDE DEF g
<1>5. /\ d \in Configs /\ d.order = o /\ d.group = g /\ d.groups = c.groups
      /\ d.marked = c.marked \ gone
  BY <1>2, <1>3, <1>4 DEF Configs
<1> HIDE DEF d
<1>6. SettingsOK(d)
  BY <1>3, <1>4, <1>5 DEF SettingsOK
<1>7. /\ Tidy(Used(d)) /\ Used(d).order = o /\ Used(d).group = g /\ Used(d).marked = c.marked \ gone
      /\ Used(d).groups = {id \in c.groups : \E n \in Names : g[n] = id}
  BY <1>5, <1>6, UsedTidy
<1> DEFINE e == Used(d)
<1> HIDE DEF e
<1>8. LeavesOut(e, c, gone)
  BY <1>7 DEF e, o, g, LeavesOut
<1> QED  BY <1>1, <1>8 DEF e

(* Nobody is left out and nothing changes. *)
LEMMA WithoutNobody ==
    ASSUME NEW c, Tidy(c)
    PROVE  Without(c, {}) = c
<1> DEFINE d == Without(c, {})
<1>1. c \in Configs /\ SettingsOK(c) /\ c.order \in Seq(Names)
  BY DEF Tidy, SettingsOK, Configs
<1>0. LeavesOut(d, c, {})
  BY <1>1, WithoutFacts
<1> HIDE DEF d
<1>2. /\ Tidy(d) /\ d.order = Among(c.order, Names) /\ d.marked = c.marked
      /\ d.group = [n \in Names |-> c.group[n]]
      /\ d.groups = {id \in c.groups : \E n \in Names : d.group[n] = id}
  <2>1. Names \ {} = Names /\ c.marked \ {} = c.marked
    OBVIOUS
  <2> QED  BY <1>0, <2>1 DEF LeavesOut
<1>3. d.order = c.order
  <2>1. Range(c.order) \subseteq Names
    BY <1>1, RangeOfSeq
  <2> QED  BY <1>1, <1>2, <2>1, AmongAll
<1>4. d.group = c.group
  BY <1>1, <1>2 DEF Configs
<1>5. d.groups = c.groups
  BY <1>2, <1>4 DEF Tidy
<1>6. d \in Configs
  BY <1>2 DEF Tidy, SettingsOK
<1> QED  BY <1>1, <1>2, <1>3, <1>4, <1>5, <1>6, SameConfigs DEF d

(* One more is left out: remove_workspace on the file keeps it the copy    *)
(* without those that are gone.                                            *)
LEMMA WithoutOneMore ==
    ASSUME NEW c, SettingsOK(c), NEW gone, NEW n \in Names
    PROVE  Removed(Without(c, gone), n) = Without(c, gone \cup {n})
<1> DEFINE a == Without(c, gone)
           b == Without(c, gone \cup {n})
           o == Among(a.order, Names \ {n})
           g == [a.group EXCEPT ![n] = Nobody]
           d == [a EXCEPT !.order = o, !.group = g, !.marked = a.marked \ {n}]
<1>1. Removed(a, n) = Used(d)
  BY DEF Removed
<1>2. c \in Configs /\ c.order \in Seq(Names) /\ c.group \in [Names -> Groups \cup {Nobody}] /\ c.groups \subseteq Groups
  BY DEF SettingsOK, Configs
<1>0. LeavesOut(a, c, gone) /\ LeavesOut(b, c, gone \cup {n})
  BY WithoutFacts
<1> HIDE DEF a, b
<1>3. /\ Tidy(a) /\ a.order = Among(c.order, Names \ gone) /\ a.marked = c.marked \ gone
      /\ a.group = [m \in Names |-> IF m \in gone THEN Nobody ELSE c.group[m]]
      /\ a.groups = {id \in c.groups : \E m \in Names : a.group[m] = id}
  BY <1>0 DEF LeavesOut
<1>4. /\ Tidy(b) /\ b.order = Among(c.order, Names \ (gone \cup {n})) /\ b.marked = c.marked \ (gone \cup {n})
      /\ b.group = [m \in Names |-> IF m \in gone \cup {n} THEN Nobody ELSE c.group[m]]
      /\ b.groups = {id \in c.groups : \E m \in Names : b.group[m] = id}
  BY <1>0 DEF LeavesOut
<1>5. a \in Configs /\ a.order \in Seq(Names) /\ IsInjective(a.order) /\ b \in Configs
  BY <1>3, <1>4 DEF Tidy, SettingsOK, Configs
<1>6. o \in Seq(Names) /\ IsInjective(o)
  BY <1>5, AmongFacts
<1>7. o = b.order
  <2>1. Among(Among(c.order, Names \ gone), Names \ {n}) = Among(c.order, (Names \ gone) \cap (Names \ {n}))
    BY <1>2, AmongBoth
  <2>2. (Names \ gone) \cap (Names \ {n}) = Names \ (gone \cup {n})
    OBVIOUS
  <2> QED  BY <1>3, <1>4, <2>1, <2>2
<1> HIDE DEF o
<1>8. g \in [Names -> Groups \cup {Nobody}] /\ \A m \in Names : g[m] = IF m = n THEN Nobody ELSE a.group[m]
  BY <1>5 DEF Configs
<1>9. g = b.group
  BY <1>3, <1>4, <1>8
<1> HIDE DEF g
<1>10. /\ d \in Configs /\ d.order = o /\ d.group = g /\ d.groups = a.groups
       /\ d.marked = a.marked \ {n}
  BY <1>5, <1>6, <1>8 DEF Configs
<1> HIDE DEF d
<1>11. SettingsOK(d)
  BY <1>3, <1>6, <1>8, <1>10 DEF Tidy, SettingsOK
<1>12. /\ Used(d) \in Configs /\ Used(d).order = o /\ Used(d).group = g /\ Used(d).marked = d.marked
       /\ Used(d).groups = {id \in a.groups : \E m \in Names : g[m] = id}
  BY <1>10, <1>11, UsedTidy DEF Tidy, SettingsOK
<1>13. Used(d).groups = b.groups
  <2>1. ASSUME NEW id \in c.groups, NEW m \in Names, g[m] = id PROVE a.group[m] = id
    BY <1>2, <1>8, <2>1, NobodyElse
  <2>2. {id \in a.groups : \E m \in Names : g[m] = id} = {id \in c.groups : \E m \in Names : g[m] = id}
    BY <1>3, <2>1
  <2> QED  BY <1>4, <1>9, <1>12, <2>2
<1>14. Used(d).marked = b.marked
  BY <1>3, <1>4, <1>10, <1>12
<1> QED  BY <1>1, <1>5, <1>7, <1>9, <1>12, <1>13, <1>14, SameConfigs DEF a, b
-----------------------------------------------------------------------------
(* What the operators on the front end keep of this.                       *)

LEMMA FileTidy == ASSUME NEW c, NEW f, Agrees(c, f) PROVE SettingsOK(f.file)
BY DEF Agrees, Tidy

LEMMA QueuedAgrees ==
    ASSUME NEW c, NEW f, Agrees(c, f), NEW t \in Tasks
    PROVE  Agrees(c, Queued(f, t))
<1> DEFINE g == Queued(f, t)
<1>1. FrontOK(f)
  BY DEF Agrees
<1>2. FrontOK(g) /\ g.live = f.live /\ g.active = f.active
  BY <1>1, QueuedKeeps
<1>3. g.file = f.file /\ g.forgotten = f.forgotten /\ g.unsaved = f.unsaved
  BY <1>1 DEF FrontOK, Queued
<1> HIDE DEF g
<1> QED  BY <1>2, <1>3 DEF Agrees, g

LEMMA ActivatedAgrees ==
    ASSUME NEW c, NEW f, Agrees(c, f), NEW n \in Names
    PROVE  Agrees(c, Activated(f, n))
<1> DEFINE g == [f EXCEPT !.active = n]
<1>1. FrontOK(f)
  BY DEF Agrees
<1>2. /\ FrontOK(g) /\ g.live = f.live /\ g.active = n
      /\ g.file = f.file /\ g.forgotten = f.forgotten /\ g.unsaved = f.unsaved
  BY <1>1 DEF FrontOK
<1>3. Activated(f, n) = Queued(g, Reconcile)
  BY DEF Activated
<1> HIDE DEF g
<1>4. Agrees(c, g)
  BY <1>2 DEF Agrees
<1> QED  BY <1>3, <1>4, OwnTasks, QueuedAgrees

LEMMA FlagAgrees ==
    ASSUME NEW c, NEW f, Agrees(c, f), NEW flag \in BOOLEAN
    PROVE  Agrees(c, [f EXCEPT !.switching = flag])
<1> DEFINE g == [f EXCEPT !.switching = flag]
<1>1. FrontOK(f)
  BY DEF Agrees
<1>2. /\ FrontOK(g) /\ g.live = f.live /\ g.active = f.active
      /\ g.file = f.file /\ g.forgotten = f.forgotten /\ g.unsaved = f.unsaved
  BY <1>1 DEF FrontOK
<1> HIDE DEF g
<1> QED  BY <1>2 DEF Agrees, g

LEMMA SwitchingAgrees ==
    ASSUME NEW c, NEW f, Agrees(c, f), NEW n \in Names
    PROVE  Agrees(c, Switching(f, n))
  BY FlagAgrees, ActivatedAgrees DEF Switching

LEMMA LiveAgrees ==
    ASSUME NEW c, NEW f, Agrees(c, f), NEW live \in SUBSET Names
    PROVE  Agrees(c, [f EXCEPT !.live = live])
<1> DEFINE g == [f EXCEPT !.live = live]
<1>1. FrontOK(f)
  BY DEF Agrees
<1>2. /\ FrontOK(g) /\ g.live = live /\ g.active = f.active
      /\ g.file = f.file /\ g.forgotten = f.forgotten /\ g.unsaved = f.unsaved
  BY <1>1 DEF FrontOK
<1> HIDE DEF g
<1> QED  BY <1>2 DEF Agrees, g

(* A workspace that is listed and alive is found in either direction.      *)
LEMMA NextOfThere ==
    ASSUME NEW order, NEW all, Lists(order, all), NEW n \in all, NEW live,
           NEW other \in live, other \in all, other # n
    PROVE  NextOf(order, n, live) \in live
<1> DEFINE at == Place(order, n)
           above == SubSeq(order, 1, at - 1)
           beyond == SubSeq(order, at + 1, Len(order))
           on == Among(beyond, live)
           back == Among(above, live)
<1>1. order \in Seq(Names) /\ Len(order) \in Nat /\ \A x \in all : \E i \in 1 .. Len(order) : order[i] = x
  BY DEF Lists, Range
<1>2. at \in 1 .. Len(order) /\ order[at] = n
  <2>1. n \in Range(order) /\ DOMAIN order = 1 .. Len(order)
    BY <1>1 DEF Lists
  <2> QED  BY <2>1, PlaceThere
<1> HIDE DEF at
<1>3. PICK i \in 1 .. Len(order) : order[i] = other
  BY <1>1
<1>4. beyond \in Seq(Names) /\ Len(beyond) = Len(order) - at /\ \A j \in 1 .. Len(order) - at : beyond[j] = order[at + 1 + j - 1]
  <2>1. \A j \in at + 1 .. Len(order) : order[j] \in Names
    BY <1>1, <1>2
  <2> QED  BY <1>1, <1>2, <2>1, SubSeqProperties
<1>5. above \in Seq(Names) /\ Len(above) = at - 1 /\ \A j \in 1 .. at - 1 : above[j] = order[j]
  <2>1. \A j \in 1 .. at - 1 : order[j] \in Names
    BY <1>1, <1>2
  <2> QED  BY <1>1, <1>2, <2>1, SubSeqProperties
<1>6. NextOf(order, n, live) = IF on # <<>> THEN on[1] ELSE back[Len(back)]
  BY DEF NextOf, at
<1> HIDE DEF beyond, above
<1>7. on \in Seq(Names) /\ \A x : x \in Range(on) <=> x \in Range(beyond) /\ x \in live
  BY <1>4, AmongFacts
<1>8. back \in Seq(Names) /\ \A x : x \in Range(back) <=> x \in Range(above) /\ x \in live
  BY <1>5, AmongFacts
<1> HIDE DEF on, back
<1>9. CASE on # <<>>
  <2>1. 1 \in DOMAIN on
    BY <1>7, <1>9
  <2>2. on[1] \in Range(on)
    BY <2>1 DEF Range
  <2> QED  BY <1>6, <1>7, <1>9, <2>2
<1>10. CASE on = <<>>
  <2>1. other \notin Range(beyond)
    BY <1>7, <1>10 DEF Range
  <2>2. i <= at
    <3>1. SUFFICES ASSUME i > at PROVE FALSE
      BY <1>2, <1>3
    <3>2. i - at \in 1 .. Len(order) - at /\ at + 1 + (i - at) - 1 = i
      BY <1>1, <1>2, <3>1
    <3>3. beyond[i - at] = other /\ i - at \in DOMAIN beyond
      BY <1>3, <1>4, <3>2
    <3> QED  BY <2>1, <3>3 DEF Range
  <2>3. i \in 1 .. at - 1
    BY <1>2, <1>3, <2>2
  <2>4. other \in Range(back)
    <3>1. above[i] = other /\ i \in DOMAIN above
      BY <1>3, <1>5, <2>3
    <3>2. other \in Range(above)
      BY <3>1 DEF Range
    <3> QED  BY <1>8, <3>2
  <2>5. Len(back) \in DOMAIN back
    <3>1. back # <<>>
      BY <2>4 DEF Range
    <3> QED  BY <1>8, <3>1
  <2>6. back[Len(back)] \in Range(back)
    BY <2>5 DEF Range
  <2> QED  BY <1>6, <1>8, <1>10, <2>6
<1> QED  BY <1>9, <1>10

(* A workspace is forgotten in the file, or the file stays as it is.       *)
LEMMA ForgottenAgrees ==
    ASSUME NEW c, Tidy(c), NEW f, Agrees(c, f), NEW n \in Names
    PROVE  Agrees(c, Forgotten(f, n))
<1> DEFINE l == [f EXCEPT !.file = Removed(f.file, n), !.forgotten = f.forgotten \cup {n}]
<1>1. FrontOK(f) /\ Tidy(f.file) /\ f.forgotten \subseteq Names
  BY DEF Agrees
<1>2. /\ FrontOK(l) /\ l.live = f.live /\ l.active = f.active /\ l.unsaved = f.unsaved
      /\ l.file = Removed(f.file, n) /\ l.forgotten = f.forgotten \cup {n}
  BY <1>1 DEF FrontOK
<1>3. Forgotten(f, n) = f \/ Forgotten(f, n) = l
  BY DEF Forgotten
<1> HIDE DEF l
<1>4. Tidy(l.file)
  BY <1>1, <1>2, RemovedTidy DEF Tidy
<1>5. f.file = Without(c, f.forgotten) => l.file = Without(c, l.forgotten)
  BY <1>1, <1>2, WithoutOneMore DEF Tidy
<1>6. Agrees(c, l)
  BY <1>1, <1>2, <1>4, <1>5 DEF Agrees
<1> QED  BY <1>3, <1>6

(* A reconcile that leaves a workspace forgets it in the file, too.        *)
LEMMA ReconciledAgrees ==
    ASSUME NEW c, Tidy(c), NEW f, Agrees(c, f)
    PROVE  Agrees(c, Reconciled(f))
<1> DEFINE all == f.live \cup {f.active}
           order == Display(f.file, all)
           next == NextOf(order, f.active, f.live)
           left == IF f.live = {} THEN f ELSE Activated(f, next)
           l == Forgotten(left, f.active)
<1>1. Reconciled(f) = IF f.active \in f.live THEN Queued(f, TailOfOne)
                      ELSE IF f.switching THEN f ELSE Queued(l, TailOfOne)
  BY DEF Reconciled
<1>2. CASE f.active \in f.live \/ f.switching
  BY <1>1, <1>2, OwnTasks, QueuedAgrees
<1>3. CASE f.active \notin f.live /\ ~f.switching
  <2>1. all \in SUBSET Names /\ f.live \subseteq Names /\ f.active \in Names
    BY DEF Agrees
  <2>2. Lists(order, all)
    BY <2>1, FileTidy, DisplayLists
  <2> HIDE DEF order
  <2>3. Agrees(c, left)
    <3>1. CASE f.live = {}
      BY <3>1
    <3>2. CASE f.live # {}
      <4>1. PICK other \in f.live : TRUE
        BY <3>2
      <4>2. next \in f.live
        BY <1>3, <2>2, <4>1, NextOfThere
      <4> HIDE DEF next
      <4>3. Agrees(c, Activated(f, next))
        BY <2>1, <4>2, ActivatedAgrees
      <4> QED  BY <3>2, <4>3
    <3> QED  BY <3>1, <3>2
  <2> HIDE DEF left
  <2>7. Agrees(c, l)
    BY <2>1, <2>3, ForgottenAgrees
  <2> HIDE DEF l
  <2>8. Agrees(c, Queued(l, TailOfOne))
    BY <2>7, OwnTasks, QueuedAgrees
  <2> QED  BY <1>1, <1>3, <2>8
<1> QED  BY <1>2, <1>3

LEMMA SwitchedAgrees ==
    ASSUME NEW c, Tidy(c), NEW f, Agrees(c, f), NEW n \in Names
    PROVE  Agrees(c, Switched(f, n))
<1>1. Agrees(c, [Activated(f, n) EXCEPT !.switching = FALSE])
  BY ActivatedAgrees, FlagAgrees
<1> QED  BY <1>1, ReconciledAgrees DEF Switched

(* The copy is saved. *)
LEMMA SavedAgrees ==
    ASSUME NEW c, NEW f, Agrees(c, f), NEW d, Tidy(d)
    PROVE  Agrees(d, Saved(f, d))
<1> DEFINE g == Saved(f, d)
<1>1. FrontOK(f)
  BY DEF Agrees
<1>2. FrontOK(g) /\ g.live = f.live /\ g.active = f.active
  BY <1>1, SavedKeeps
<1>3. \/ g.file = f.file /\ g.forgotten = f.forgotten /\ g.unsaved
      \/ g.file = d /\ g.forgotten = {}
  BY <1>1 DEF FrontOK, Saved
<1> HIDE DEF g
<1>4. Without(d, {}) = d
  BY WithoutNobody
<1> QED  BY <1>2, <1>3, <1>4 DEF Agrees, g
-----------------------------------------------------------------------------
(* The steps, and what they keep of the settings.                          *)

LEMMA NoConfigsTidy == Tidy(NoConfigs)
<1> DEFINE o == NoConfigs.order
<1>1. o \in Seq(Names) /\ IsInjective(o)
  BY DEF NoConfigs, IsInjective
<1>2. NoConfigs \in Configs
  BY <1>1 DEF NoConfigs, Configs
<1> QED  BY <1>1, <1>2 DEF NoConfigs, Tidy, SettingsOK

LEMMA InitSInv == Init => SInv
<1> SUFFICES ASSUME Init PROVE SInv
  OBVIOUS
<1>1. PICK i \in Names :
        front = [live |-> 1 .. i, active |-> 1, file |-> NoConfigs,
                 switching |-> FALSE, queue |-> <<>>, full |-> FALSE,
                 forgotten |-> {}, unsaved |-> FALSE]
  BY DEF Init
<1>2. Tidy(NoConfigs)
  BY NoConfigsTidy
<1>3. Without(NoConfigs, {}) = NoConfigs
  BY <1>2, WithoutNobody
<1>4. front.live \subseteq Names /\ front.active \in Names
  <2>1. front.live = 1 .. i /\ front.active = 1
    BY <1>1
  <2>2. i \in Int /\ 1 <= i /\ i <= MaxName /\ Names = 1 .. MaxName /\ MaxName \in Nat
    BY NobodyElse
  <2> QED  BY <2>1, <2>2
<1>5. front.forgotten = {} /\ front.file = NoConfigs
  BY <1>1
<1>6. copy = NoConfigs
  BY DEF Init
<1>7. IInv
  BY InitIInv
<1> QED  BY <1>2, <1>3, <1>4, <1>5, <1>6, <1>7 DEF SInv, Agrees, IInv

LEMMA PoppedAgrees ==
    ASSUME SInv, front.queue # <<>>
    PROVE  Agrees(copy, Popped) /\ Head(front.queue) \in Tasks
<1> DEFINE f == Popped
<1>1. FrontOK(front) /\ Agrees(copy, front)
  BY DEF SInv, IInv
<1>2. FrontOK(f) /\ f.live = front.live /\ f.active = front.active /\ Head(front.queue) \in Tasks
  BY <1>1, PoppedKeeps
<1>3. f.file = front.file /\ f.forgotten = front.forgotten /\ f.unsaved = front.unsaved
  BY <1>1 DEF FrontOK, Popped
<1> HIDE DEF f
<1>4. Agrees(copy, f)
  BY <1>1, <1>2, <1>3 DEF Agrees
<1> QED  BY <1>2, <1>4 DEF f

LEMMA RunSettings == ASSUME SInv, Run PROVE Tidy(copy') /\ Agrees(copy', front')
<1> DEFINE task == Head(front.queue)
           f == Popped
           g == Ran(f, task)
<1>1. front.queue # <<>> /\ front' = g /\ copy' = copy /\ Tidy(copy)
  BY DEF Run, SInv
<1>2. Agrees(copy, f) /\ task \in Tasks
  BY <1>1, PoppedAgrees
<1> HIDE DEF task, f
<1>3. CASE task.do = "reconcile"
  <2>1. g = f \/ g = Reconciled(f)
    BY <1>3 DEF Ran, Spawns
  <2> HIDE DEF g
  <2>2. Agrees(copy, g)
    BY <1>1, <1>2, <2>1, ReconciledAgrees
  <2> QED  BY <1>1, <2>2
<1>4. CASE task.do = "tail"
  <2>1. g = [f EXCEPT !.switching = FALSE]
    BY <1>4 DEF Ran, Spawns
  <2> HIDE DEF g
  <2>2. Agrees(copy, g)
    BY <1>2, <2>1, FlagAgrees
  <2> QED  BY <1>1, <2>2
<1>5. CASE task.do \in Enders
  <2>1. task.name \in Names
    BY <1>2, <1>5 DEF Tasks
  <2>2. PICK h : Agrees(copy, h) /\ g = Switched(h, task.name)
    <3>1. CASE task.do = "drop"
      BY <1>2, <3>1 DEF Ran, Spawns
    <3>2. CASE task.do \in Spawns
      <4> DEFINE o == [f EXCEPT !.live = f.live \cup {f.active}]
      <4>1. f.live \cup {f.active} \in SUBSET Names
        BY <1>2 DEF Agrees
      <4>2. Agrees(copy, o)
        BY <1>2, <4>1, LiveAgrees
      <4>3. Opened(f) = Queued(o, Reconcile)
        BY DEF Opened
      <4> HIDE DEF o
      <4>4. Agrees(copy, Opened(f))
        BY <4>2, <4>3, OwnTasks, QueuedAgrees
      <4>5. g = Switched(Opened(f), task.name)
        BY <3>2 DEF Ran, Spawns
      <4> QED  BY <4>4, <4>5
    <3> QED  BY <1>5, <3>1, <3>2 DEF Enders, Spawns
  <2> HIDE DEF g
  <2>3. Agrees(copy, g)
    BY <1>1, <2>1, <2>2, SwitchedAgrees
  <2> QED  BY <1>1, <2>3
<1>6. task.do \in {"reconcile", "tail"} \cup Enders
  BY <1>2 DEF Tasks, Dos, Enders
<1> HIDE DEF g
<1> QED  BY <1>3, <1>4, <1>5, <1>6

LEMMA SpawnFailsSettings == ASSUME SInv, SpawnFails PROVE Tidy(copy') /\ Agrees(copy', front')
<1>1. /\ front.queue # <<>> /\ Head(front.queue).do \in Spawns
      /\ front' = Switched(Popped, Head(front.queue).name) /\ copy' = copy /\ Tidy(copy)
  BY DEF SpawnFails, SInv
<1>2. Agrees(copy, Popped) /\ Head(front.queue) \in Tasks
  BY <1>1, PoppedAgrees
<1>3. Head(front.queue).name \in Names
  BY <1>1, <1>2 DEF Tasks, Enders, Spawns
<1> QED  BY <1>1, <1>2, <1>3, SwitchedAgrees

LEMMA FaultSettings == ASSUME SInv, Fault PROVE Tidy(copy') /\ Agrees(copy', front')
<1>1. FrontOK(front) /\ Tidy(copy) /\ Agrees(copy, front)
  BY DEF SInv, IInv
<1>2. /\ FrontOK(front') /\ front'.live = front.live /\ front'.active = front.active
      /\ front'.forgotten = front.forgotten /\ copy' = copy
      /\ \/ front'.file = front.file /\ front'.unsaved = front.unsaved
         \/ front'.file = NoConfigs /\ front'.unsaved
  BY <1>1, FaultDoes
<1>3. Agrees(copy, front')
  BY <1>1, <1>2, NoConfigsTidy DEF Agrees
<1> QED  BY <1>1, <1>2, <1>3

LEMMA EditSettings ==
    ASSUME SInv, NEW c, Tidy(c), Edit(c)
    PROVE  Tidy(copy') /\ Agrees(copy', front')
<1>1. copy' = c /\ front' = Saved(front, c)
  BY DEF Edit
<1>2. Agrees(copy, front)
  BY DEF SInv
<1> QED  BY <1>1, <1>2, SavedAgrees

LEMMA EditsSettings ==
    ASSUME SInv, NEW n \in front.live,
           \/ NewGroup(n) \/ LeaveGroup(n) \/ Mark(n)
           \/ (\E to \in {"up", "down", "top", "bottom"} : Move(n, to))
           \/ \E id \in Groups : JoinGroup(n, id)
    PROVE  Tidy(copy') /\ Agrees(copy', front')
<1> DEFINE live == front.live
<1>1. Tidy(copy) /\ SettingsOK(copy) /\ live \in SUBSET Names /\ n \in Names
  BY DEF SInv, Agrees, Tidy
<1> HIDE DEF live
<1>2. CASE NewGroup(n)
  <2> DEFINE d == GroupAdded(copy)
             new == NewId(copy)
             e == Grouped(d, n, new, live)
  <2>1. FreeIds(copy) # {} /\ Edit(e)
    BY <1>2 DEF NewGroup, live
  <2>2. SettingsOK(d) /\ new \in d.groups /\ GroupOf(d, n) # new
    BY <1>1, <2>1, GroupAddedOK
  <2> HIDE DEF d, new
  <2>3. Tidy(e)
    BY <1>1, <2>2, GroupedTidy
  <2> HIDE DEF e
  <2> QED  BY <2>1, <2>3, EditSettings
<1>3. CASE LeaveGroup(n)
  <2> DEFINE e == Grouped(copy, n, Nobody, live)
  <2>1. Edit(e)
    BY <1>3 DEF LeaveGroup, live
  <2>2. Tidy(e)
    BY <1>1, GroupedTidy
  <2> HIDE DEF e
  <2> QED  BY <2>1, <2>2, EditSettings
<1>4. CASE Mark(n)
  <2> DEFINE e == Marked(copy, n, n \notin copy.marked)
  <2>1. Edit(e)
    BY <1>4 DEF Mark
  <2>2. Tidy(e)
    BY <1>1, MarkedTidy
  <2> HIDE DEF e
  <2> QED  BY <2>1, <2>2, EditSettings
<1>5. ASSUME NEW to \in {"up", "down", "top", "bottom"}, Move(n, to)
      PROVE  Tidy(copy') /\ Agrees(copy', front')
  <2> DEFINE e == IF to = "bottom" THEN MovedToBottom(copy, n, live) ELSE Moved(copy, n, live, to)
  <2>1. Edit(e)
    BY <1>5 DEF Move, live
  <2>2. Tidy(MovedToBottom(copy, n, live))
    <3>1. live \cup {n} \in SUBSET Names
      BY <1>1
    <3> QED  BY <1>1, <3>1, MovedOK DEF MovedToBottom
  <2>3. Tidy(Moved(copy, n, live, to))
    BY <1>1, MovedOK
  <2>4. Tidy(e)
    BY <2>2, <2>3
  <2> HIDE DEF e
  <2> QED  BY <2>1, <2>4, EditSettings
<1>6. ASSUME NEW id \in Groups, JoinGroup(n, id)
      PROVE  Tidy(copy') /\ Agrees(copy', front')
  <2> DEFINE e == Grouped(copy, n, id, live)
  <2>1. Edit(e)
    BY <1>6 DEF JoinGroup, live
  <2>2. Tidy(e)
    BY <1>1, GroupedTidy
  <2> HIDE DEF e
  <2> QED  BY <2>1, <2>2, EditSettings
<1> QED  BY <1>2, <1>3, <1>4, <1>5, <1>6

LEMMA GroupEditsSettings ==
    ASSUME SInv, NEW id \in Groups, Ungroup(id) \/ MoveGroup(id, "up") \/ MoveGroup(id, "down")
    PROVE  Tidy(copy') /\ Agrees(copy', front')
<1>1. Tidy(copy) /\ front.live \in SUBSET Names
  BY DEF SInv, Agrees
<1>2. CASE Ungroup(id)
  BY <1>1, <1>2, UngroupedTidy, EditSettings DEF Ungroup
<1>3. ASSUME NEW to \in {"up", "down", "top", "bottom"}, MoveGroup(id, to)
      PROVE  Tidy(copy') /\ Agrees(copy', front')
  <2>1. Tidy(GroupMoved(copy, id, front.live, to))
    BY <1>1, GroupMovedOK
  <2> QED  BY <1>3, <2>1, EditSettings DEF MoveGroup
<1> QED  BY <1>2, <1>3

LEMMA SpawningAgrees ==
    ASSUME NEW c, NEW f, Agrees(c, f), NEW n \in Names, NEW do \in Spawns
    PROVE  Agrees(c, Spawning(f, n, do))
<1>1. Task(do, n) \in Tasks
  BY TaskTyped DEF Spawns, Dos
<1>2. Agrees(c, Switching(f, n))
  BY SwitchingAgrees
<1> QED  BY <1>1, <1>2, QueuedAgrees DEF Spawning

LEMMA NewWorkspaceSettings == ASSUME SInv, NewWorkspace PROVE Tidy(copy') /\ Agrees(copy', front')
<1> DEFINE n == NewName
           c == Plain(copy, n)
<1>1. PICK id :
        copy' = IF id = Nobody THEN MovedToBottom(c, n, front.live) ELSE Grouped(c, n, id, front.live)
  BY DEF NewWorkspace
<1>2. front' = Spawning(Saved(front, copy'), n, "spawn") /\ Unused # {}
  BY DEF NewWorkspace
<1>3. n \in Names
  BY <1>2, NewNameTyped
<1> HIDE DEF n
<1>4. Tidy(c) /\ SettingsOK(c)
  BY <1>3, RemovedTidy DEF SInv, Tidy, Plain
<1> HIDE DEF c
<1>5. front.live \in SUBSET Names /\ front.live \cup {n} \in SUBSET Names /\ Agrees(copy, front)
  BY <1>3 DEF SInv, Agrees
<1>6. Tidy(copy')
  <2>1. Tidy(MovedToBottom(c, n, front.live))
    BY <1>4, <1>5, MovedOK DEF MovedToBottom
  <2>2. Tidy(Grouped(c, n, id, front.live))
    BY <1>3, <1>4, <1>5, GroupedTidy
  <2> QED  BY <1>1, <2>1, <2>2
<1>7. Agrees(copy', Saved(front, copy'))
  BY <1>5, <1>6, SavedAgrees
<1>8. Agrees(copy', front')
  BY <1>2, <1>3, <1>7, SpawningAgrees DEF Spawns
<1> QED  BY <1>6, <1>8

LEMMA SwitchToWorkspaceSettings ==
    ASSUME SInv, NEW n \in Names, SwitchToWorkspace(n)
    PROVE  Tidy(copy') /\ Agrees(copy', front')
<1>1. Tidy(copy) /\ Agrees(copy, front) /\ copy' = copy
  BY DEF SInv, SwitchToWorkspace
<1>2. CASE n \in front.live
  <2>1. front' = Switched(Switching(front, n), n)
    BY <1>2 DEF SwitchToWorkspace
  <2>2. Agrees(copy, Switching(front, n))
    BY <1>1, SwitchingAgrees
  <2>3. Agrees(copy, front')
    BY <1>1, <2>1, <2>2, SwitchedAgrees
  <2> QED  BY <1>1, <2>3
<1>3. CASE n \notin front.live
  <2>1. front' = Spawning(front, n, "respawn")
    BY <1>3 DEF SwitchToWorkspace
  <2>2. Agrees(copy, front')
    BY <1>1, <2>1, SpawningAgrees DEF Spawns
  <2> QED  BY <1>1, <2>2
<1> QED  BY <1>2, <1>3

LEMMA ActivateSettings ==
    ASSUME SInv, NEW n \in Names, Activate(n)
    PROVE  Tidy(copy') /\ Agrees(copy', front')
<1>1. Tidy(copy) /\ Agrees(copy, front) /\ copy' = copy /\ front' = Switched(front, n)
  BY DEF SInv, Activate
<1>2. Agrees(copy, front')
  BY <1>1, SwitchedAgrees
<1> QED  BY <1>1, <1>2

(* The mux loses or gains workspaces, and asks for a reconcile.            *)
LEMMA ChangedAgrees ==
    ASSUME NEW c, NEW f, Agrees(c, f), NEW live \in SUBSET Names
    PROVE  Agrees(c, Queued([f EXCEPT !.live = live], Reconcile))
  BY LiveAgrees, OwnTasks, QueuedAgrees

LEMMA CloseSettings ==
    ASSUME SInv, NEW n \in Names, Close(n)
    PROVE  Tidy(copy') /\ Agrees(copy', front')
<1> DEFINE order == Display(copy, front.live)
           next == NextOf(order, n, front.live)
           f == IF n = front.active THEN Switched(front, next) ELSE front
           g == Queued([f EXCEPT !.live = f.live \ {n}], Reconcile)
<1>1. Tidy(copy) /\ SettingsOK(copy) /\ Agrees(copy, front) /\ front.live \in SUBSET Names
  BY DEF SInv, Agrees, Tidy
<1>2. CASE n = front.active /\ front.live = {n}
  <2>1. copy' = copy /\ (front' = front \/ front' = Saved(front, copy))
    BY <1>2 DEF Close
  <2>2. Agrees(copy, front')
    BY <1>1, <2>1, SavedAgrees
  <2> QED  BY <1>1, <2>1, <2>2
<1>3. CASE ~(n = front.active /\ front.live = {n})
  <2>1. copy' = Removed(copy, n) /\ front' = Saved(g, copy') /\ n \in front.live
    BY <1>3 DEF Close
  <2>2. Tidy(copy')
    BY <1>1, <2>1, RemovedTidy
  <2>3. Agrees(copy, f)
    <3>1. CASE n # front.active
      BY <1>1, <3>1
    <3>2. CASE n = front.active
      <4>1. PICK other \in front.live : other # n
        BY <1>3, <2>1, <3>2
      <4>2. Lists(order, front.live)
        BY <1>1, DisplayLists
      <4> HIDE DEF order
      <4>3. next \in front.live
        BY <2>1, <4>1, <4>2, NextOfThere
      <4> HIDE DEF next
      <4>4. Agrees(copy, Switched(front, next))
        BY <1>1, <4>3, SwitchedAgrees
      <4> QED  BY <3>2, <4>4
    <3> QED  BY <3>1, <3>2
  <2> HIDE DEF f
  <2>4. f.live \ {n} \in SUBSET Names
    BY <2>3 DEF Agrees
  <2>5. Agrees(copy, g)
    BY <2>3, <2>4, ChangedAgrees
  <2> HIDE DEF g
  <2>6. Agrees(copy', front')
    BY <2>1, <2>2, <2>5, SavedAgrees
  <2> QED  BY <2>2, <2>6
<1> QED  BY <1>2, <1>3

LEMMA EndsSettings ==
    ASSUME SInv, NEW n \in Names, Ends(n)
    PROVE  Tidy(copy') /\ Agrees(copy', front')
<1>1. /\ Tidy(copy) /\ Agrees(copy, front) /\ copy' = copy
      /\ front' = Queued([front EXCEPT !.live = front.live \ {n}], Reconcile)
  BY DEF SInv, Ends
<1>2. front.live \ {n} \in SUBSET Names
  BY <1>1 DEF Agrees
<1>3. Agrees(copy, front')
  BY <1>1, <1>2, ChangedAgrees
<1> QED  BY <1>1, <1>3

LEMMA RenameSettings ==
    ASSUME SInv, NEW n \in Names, NEW m \in Names, Rename(n, m)
    PROVE  Tidy(copy') /\ Agrees(copy', front')
<1> DEFINE told == IF front.active \in {n, m}
                   THEN Queued([front EXCEPT !.switching = TRUE], Task("drop", m)) ELSE front
           g == Queued([told EXCEPT !.live = (told.live \ {n}) \cup {m}], Reconcile)
<1>1. Tidy(copy) /\ Agrees(copy, front) /\ copy' = copy
  BY DEF SInv, Rename
<1>2. front' = IF front.active = n THEN Activated(g, m) ELSE g
  BY DEF Rename
<1>3. Agrees(copy, told)
  <2>1. Agrees(copy, [front EXCEPT !.switching = TRUE])
    BY <1>1, FlagAgrees
  <2>2. Task("drop", m) \in Tasks
    BY TaskTyped DEF Dos
  <2> QED  BY <1>1, <2>1, <2>2, QueuedAgrees
<1> HIDE DEF told
<1>4. (told.live \ {n}) \cup {m} \in SUBSET Names
  BY <1>3 DEF Agrees
<1>5. Agrees(copy, g)
  BY <1>3, <1>4, ChangedAgrees
<1> HIDE DEF g
<1>6. Agrees(copy, front')
  BY <1>2, <1>5, ActivatedAgrees
<1> QED  BY <1>1, <1>6
-----------------------------------------------------------------------------
LEMMA NextSInv == SInv /\ [Next]_vars => SInv'
<1> SUFFICES ASSUME SInv, [Next]_vars PROVE Tidy(copy') /\ Agrees(copy', front')
  <2>1. SInv /\ [Next]_vars => IInv'
    BY NextIInv DEF SInv
  <2> QED  BY <2>1 DEF SInv, Tidy, Agrees, SettingsOK
<1>1. CASE Run \/ SpawnFails \/ NewWorkspace
  BY <1>1, RunSettings, SpawnFailsSettings, NewWorkspaceSettings
<1>2. ASSUME NEW n \in Names,
             \/ SwitchToWorkspace(n) \/ Activate(n) \/ Close(n) \/ Ends(n)
             \/ \E m \in Names : Rename(n, m)
      PROVE  Tidy(copy') /\ Agrees(copy', front')
  BY <1>2, SwitchToWorkspaceSettings, ActivateSettings, CloseSettings, EndsSettings, RenameSettings
<1>3. ASSUME NEW n \in front.live,
             \/ NewGroup(n) \/ LeaveGroup(n) \/ Mark(n)
             \/ (\E to \in {"up", "down", "top", "bottom"} : Move(n, to))
             \/ \E id \in Groups : JoinGroup(n, id)
      PROVE  Tidy(copy') /\ Agrees(copy', front')
  BY <1>3, EditsSettings
<1>4. ASSUME NEW id \in Groups, Ungroup(id) \/ MoveGroup(id, "up") \/ MoveGroup(id, "down")
      PROVE  Tidy(copy') /\ Agrees(copy', front')
  BY <1>4, GroupEditsSettings
<1>5. CASE UNCHANGED vars
  <2>1. copy' = copy /\ front' = front /\ Tidy(copy) /\ Agrees(copy, front)
    BY <1>5 DEF vars, SInv
  <2> QED  BY <2>1
<1> QED  BY <1>1, <1>2, <1>3, <1>4, <1>5, FaultSettings DEF Next, Fault

THEOREM SettingsInvariant == Spec => []SInv
  BY InitSInv, NextSInv, PTL DEF Spec

LEMMA TidyOK ==
    ASSUME NEW c, Tidy(c)
    PROVE  ConfigsOK(c) /\ \A id \in Groups : id \in c.groups <=> \E n \in Names : c.group[n] = id
<1>1. /\ c.order \in Seq(Names) /\ IsInjective(c.order)
      /\ c.group \in [Names -> Groups \cup {Nobody}]
      /\ c.marked \subseteq Names /\ c.groups \subseteq Groups
  BY DEF Tidy, SettingsOK, Configs
<1>2. Range(c.order) \subseteq Names
  BY <1>1, RangeOfSeq
<1>3. ASSUME NEW id \in Groups PROVE id \in c.groups <=> \E n \in Names : c.group[n] = id
  BY NobodyElse DEF Tidy, SettingsOK
<1> QED  BY <1>1, <1>2, <1>3 DEF ConfigsOK

(* The saved settings are those of the window without the workspaces that  *)
(* have come to an end since, unless the last save of the window failed or *)
(* the file has spoiled since; in both every group has a member, every      *)
(* member's group is there, and no name is listed twice, whatever is       *)
(* moved, grouped, started, closed, renamed or left in between             *)
(* (SidebarConfig's operations and GuiFrontEnd::reconcile_workspace).      *)
THEOREM SettingsStayAgreed == Spec => []SettingsAgree
<1>1. SInv => SettingsAgree
  <2> SUFFICES ASSUME SInv PROVE SettingsAgree
    OBVIOUS
  <2>1. Tidy(copy) /\ Agrees(copy, front)
    BY DEF SInv
  <2>2. Tidy(front.file)
    BY <2>1 DEF Agrees
  <2>3. TypeOK
    BY <2>1, <2>2, TidyOK DEF TypeOK, Agrees
  <2>4. \A c \in {copy, front.file} :
           \A id \in Groups : id \in c.groups <=> \E n \in Names : c.group[n] = id
    BY <2>1, <2>2, TidyOK
  <2> QED  BY <2>1, <2>3, <2>4 DEF SettingsAgree, Agrees, Without
<1> QED  BY <1>1, SettingsInvariant, PTL
-----------------------------------------------------------------------------
(* What a change of the settings moves.                                    *)

(* The order of the copy keeps groups together.                            *)
GInv ==
    /\ SInv
    /\ Gathered(copy.order, copy.group)
    /\ DOMAIN spent = {"edits", "moves", "failures", "faults"}

MovesOneThing(before, after) ==
    /\ OthersKeepTheirOrder(before, after)
    /\ JoinsLastLeavesBelow(after)
    /\ UngroupMovesNothing(before, after)

EditIsShown ==
    <<copy'.order, copy'.group>> # <<copy.order, copy.group>>
      => MovesOneThing(Display(copy, front.live), Display(copy', front.live))

LEMMA GInvFacts ==
    ASSUME GInv
    PROVE  /\ Tidy(copy) /\ SettingsOK(copy) /\ front.live \in SUBSET Names
           /\ Gathered(copy.order, copy.group)
  BY DEF GInv, SInv, Agrees, Tidy

(* A new order with one workspace or one group in another place.           *)
LEMMA OrderEdit ==
    ASSUME GInv, NEW o, NEW ns, Rearranges(o, copy, front.live, ns),
           \/ \E n \in front.live : ns = {n}
           \/ \E id \in copy.groups : ns = {n \in front.live : copy.group[n] = id},
           NEW d, d = [copy EXCEPT !.order = o], copy' = d
    PROVE  EditIsShown /\ Gathered(d.order, d.group)
<1> DEFINE live == front.live
           before == Display(copy, live)
           after == Display(copy', live)
<1>1. SettingsOK(copy) /\ live \in SUBSET Names /\ Lists(o, live) /\ Gathered(o, copy.group)
      /\ Others(o, ns) = Others(before, ns)
  BY GInvFacts DEF Rearranges
<1>2. d.order = o /\ d.group = copy.group /\ d.groups = copy.groups /\ SettingsOK(d)
  <2>1. copy \in Configs
    BY <1>1 DEF SettingsOK
  <2>2. SettingsOK(d)
    BY <1>1, ReorderedOK
  <2> QED  BY <2>1, <2>2 DEF Configs
<1>3. after = o
  <2>1. Display(d, live) = o
    BY <1>1, <1>2, GatheredDisplay
  <2> QED  BY <2>1
<1> HIDE DEF before, after
<1>4. OthersKeepTheirOrder(before, after)
  <2>1. ns \in {{n} : n \in front.live} \cup {{n \in front.live : copy.group[n] = id} : id \in copy.groups}
    OBVIOUS
  <2> QED  BY <1>1, <1>3, <2>1 DEF OthersKeepTheirOrder
<1>5. JoinsLastLeavesBelow(after) /\ UngroupMovesNothing(before, after)
  BY <1>2 DEF JoinsLastLeavesBelow, UngroupMovesNothing
<1> QED  BY <1>1, <1>2, <1>4, <1>5 DEF EditIsShown, MovesOneThing, before, after

LEMMA MoveShown ==
    ASSUME GInv, NEW n \in front.live, NEW to \in {"up", "down", "top", "bottom"}, Move(n, to)
    PROVE  EditIsShown /\ Gathered(copy'.order, copy'.group)
<1> DEFINE d == Moved(copy, n, front.live, to)
<1>1. copy' = d
  <2>1. front.live \cup {n} = front.live
    OBVIOUS
  <2> QED  BY <2>1 DEF Move, Edit, MovedToBottom
<1>2. PICK o : d = [copy EXCEPT !.order = o] /\ Rearranges(o, copy, front.live, {n})
  BY GInvFacts, MovedShows
<1> HIDE DEF d
<1> QED  BY <1>1, <1>2, OrderEdit

LEMMA MoveGroupShown ==
    ASSUME GInv, NEW id \in Groups, NEW to \in {"up", "down", "top", "bottom"}, MoveGroup(id, to)
    PROVE  EditIsShown /\ Gathered(copy'.order, copy'.group)
<1> DEFINE d == GroupMoved(copy, id, front.live, to)
           ns == MembersOf(copy, id, front.live)
<1>1. copy' = d /\ id \in copy.groups
  BY DEF MoveGroup, Edit
<1>2. PICK o : d = [copy EXCEPT !.order = o] /\ Rearranges(o, copy, front.live, ns)
  BY GInvFacts, GroupMovedShows
<1>3. \E k \in copy.groups : ns = {n \in front.live : copy.group[n] = k}
  BY <1>1 DEF MembersOf
<1> HIDE DEF d, ns
<1> QED  BY <1>1, <1>2, <1>3, OrderEdit

(* A workspace joins a group or leaves it.  c is the copy, or the copy     *)
(* with a new group.                                                       *)
LEMMA GroupEdit ==
    ASSUME GInv, NEW n \in front.live, NEW id,
           NEW c, SettingsOK(c), c.order = copy.order, c.group = copy.group,
           copy' = Grouped(c, n, id, front.live)
    PROVE  EditIsShown /\ Gathered(copy'.order, copy'.group)
<1> DEFINE live == front.live
           group == IF id \in c.groups THEN id ELSE Nobody
           before == Display(copy, live)
           after == Display(copy', live)
           d == Grouped(c, n, id, live)
<1>1. /\ SettingsOK(copy) /\ live \in SUBSET Names /\ n \in Names /\ live \cup {n} = live
      /\ Gathered(copy.order, copy.group)
  BY GInvFacts
<1>2. before = Display(c, live)
  BY <1>1, GroupsAlone
<1>3. Gathered(copy'.order, copy'.group)
  <2>1. Gathered(d.order, d.group)
    BY <1>1, GroupedGathered
  <2> QED  BY <2>1
<1>4. CASE group = copy.group[n]
  <2>1. d = c
    BY <1>1, <1>4 DEF Grouped, GroupOf, SettingsOK, Configs
  <2>2. copy'.order = copy.order /\ copy'.group = copy.group
    BY <2>1
  <2> QED  BY <1>3, <2>2 DEF EditIsShown
<1>5. CASE group # copy.group[n]
  <2> HIDE DEF group
  <2>1. Joins(d, c, n, group, live)
    <3>1. Joins(Grouped(c, n, id, live), c, n, group, live \cup {n})
      BY <1>1, <1>5, GroupedShows DEF group
    <3> QED  BY <1>1, <3>1
  <2>2. copy' = d
    OBVIOUS
  <2> HIDE DEF d
  <2> DEFINE anchor == IF group # Nobody THEN group ELSE copy.group[n]
  <2>3. /\ Tidy(d) /\ SettingsOK(d) /\ d.group = [copy.group EXCEPT ![n] = group]
        /\ Lists(d.order, live) /\ Gathered(d.order, d.group)
        /\ Others(d.order, {n}) = Others(before, {n})
        /\ \A m \in live \ {n} : d.group[m] = anchor => Prec(d.order, m, n)
    BY <1>2, <2>1 DEF Joins, Tidy
  <2>4. after = d.order
    <3>1. Display(d, live) = d.order
      BY <1>1, <2>3, GatheredDisplay
    <3> QED  BY <2>2, <3>1
  <2>5. copy.group \in [Names -> Groups \cup {Nobody}]
    BY <1>1 DEF SettingsOK, Configs
  <2>6. d.group[n] = group /\ \A k \in Names : k # n => d.group[k] = copy.group[k]
    BY <1>1, <2>3, <2>5
  <2> HIDE DEF before, after, anchor
  <2>7. OthersKeepTheirOrder(before, after)
    <3>1. {n} \in {{k} : k \in front.live} \cup {{k \in front.live : copy.group[k] = i} : i \in copy.groups}
      OBVIOUS
    <3> QED  BY <2>3, <2>4, <3>1 DEF OthersKeepTheirOrder
  <2>8. JoinsLastLeavesBelow(after)
    <3> DEFINE k == CHOOSE k \in front.live : copy'.group[k] # copy.group[k]
    <3>0. copy'.group = d.group
      BY <2>2
    <3>1. k = n
      <4>1. \A m \in front.live : copy'.group[m] # copy.group[m] <=> m = n
        BY <1>1, <1>5, <2>6, <3>0
      <4> QED  BY <4>1
    <3>2. (IF copy'.group[n] # Nobody THEN copy'.group[n] ELSE copy.group[n]) = anchor
      BY <2>6, <3>0 DEF anchor
    <3>3. ASSUME NEW m \in front.live \ {n}, copy'.group[m] = anchor PROVE Place(after, m) < Place(after, n)
      <4>1. d.order \in Seq(Names) /\ IsInjective(d.order)
        BY <2>3 DEF Lists
      <4>2. Prec(d.order, m, n)
        BY <2>3, <3>0, <3>3
      <4> QED  BY <2>4, <4>1, <4>2, PrecPlaces
    <3> HIDE DEF k
    <3>4. \A m \in front.live \ {k} :
             copy'.group[m] = (IF copy'.group[k] # Nobody THEN copy'.group[k] ELSE copy.group[k])
               => Place(after, m) < Place(after, k)
      BY <3>1, <3>2, <3>3
    <3> QED  BY <3>4 DEF JoinsLastLeavesBelow, k
  <2>9. UngroupMovesNothing(before, after)
    <3>1. ASSUME copy'.order = copy.order PROVE after = before
      <4>1. Lists(copy.order, live)
        BY <2>2, <2>3, <3>1
      <4>2. before = copy.order
        BY <1>1, <4>1, GatheredDisplay DEF before
      <4> QED  BY <2>2, <2>4, <3>1, <4>2
    <3> QED  BY <3>1 DEF UngroupMovesNothing
  <2> QED  BY <1>3, <2>7, <2>8, <2>9 DEF EditIsShown, MovesOneThing, before, after
<1> QED  BY <1>4, <1>5

LEMMA UngroupShown ==
    ASSUME GInv, NEW id \in Groups, Ungroup(id)
    PROVE  EditIsShown /\ Gathered(copy'.order, copy'.group)
<1> DEFINE live == front.live
           before == Display(copy, live)
           after == Display(copy', live)
           d == Ungrouped(copy, id)
           ns == {n \in live : copy.group[n] = id}
<1>1. Tidy(copy) /\ SettingsOK(copy) /\ live \in SUBSET Names /\ Gathered(copy.order, copy.group)
  BY GInvFacts
<1>2. copy' = d /\ id \in copy.groups /\ id # Nobody
  BY NobodyElse DEF Ungroup, Edit
<1>3. SettingsOK(d) /\ d.groups = copy.groups \ {id} /\ Gathered(d.order, d.group)
  BY <1>1, UngroupedTidy, UngroupedFacts, UngroupedGathered DEF Tidy
<1> DEFINE D == Display(d, live)
<1>4. /\ Others(D, ns) = Others(before, ns)
      /\ Gathered(copy.order, copy.group) /\ {n \in live : copy.group[n] # Nobody} \subseteq Range(copy.order)
           => D = before
  <2>1. d = Ungrouped(copy, id)
    OBVIOUS
  <2> HIDE DEF d
  <2> QED  BY <1>1, <1>2, <1>3, <2>1, UngroupedShows
<1>5. after = D
  BY <1>2
<1> HIDE DEF d, D, before, after
<1>6. OthersKeepTheirOrder(before, after)
  <2>1. ns \in {{n} : n \in front.live} \cup {{n \in front.live : copy.group[n] = i} : i \in copy.groups}
    BY <1>2
  <2> HIDE DEF ns
  <2> QED  BY <1>4, <1>5, <2>1 DEF OthersKeepTheirOrder
<1>7. JoinsLastLeavesBelow(after)
  BY <1>2, <1>3 DEF JoinsLastLeavesBelow
<1>8. UngroupMovesNothing(before, after)
  BY <1>1, <1>4, <1>5 DEF UngroupMovesNothing
<1> QED  BY <1>2, <1>3, <1>6, <1>7, <1>8 DEF EditIsShown, MovesOneThing, before, after

(* A step that is not about the settings, or about all of them, makes no   *)
(* edit.                                                                   *)
NoEdit == spent'.edits = spent.edits /\ DOMAIN spent' = DOMAIN spent

LEMMA StepIsNoEdit ==
    ASSUME GInv, \/ Step \/ UNCHANGED spent
                 \/ spent' = [spent EXCEPT !.failures = @ + 1]
                 \/ spent' = [spent EXCEPT !.faults = @ + 1]
    PROVE  NoEdit
<1>1. DOMAIN spent = {"edits", "moves", "failures", "faults"}
  BY DEF GInv
<1> QED  BY <1>1 DEF Step, NoEdit

LEMMA EditSpends == ASSUME GInv, NEW c, Edit(c) PROVE DOMAIN spent' = DOMAIN spent
  BY DEF GInv, Edit

LEMMA NewWorkspaceGathers == ASSUME GInv, NewWorkspace PROVE Gathered(copy'.order, copy'.group)
<1> DEFINE n == NewName
           c == Plain(copy, n)
           all == front.live \cup {n}
<1>1. PICK id :
        copy' = IF id = Nobody THEN MovedToBottom(c, n, front.live) ELSE Grouped(c, n, id, front.live)
  BY DEF NewWorkspace
<1>2. n \in Names
  BY NewNameTyped DEF NewWorkspace
<1> HIDE DEF n
<1>3. SettingsOK(copy) /\ front.live \in SUBSET Names /\ all \in SUBSET Names /\ Gathered(copy.order, copy.group)
  BY <1>2, GInvFacts
<1>4. SettingsOK(c) /\ Gathered(c.order, c.group)
  BY <1>2, <1>3, RemovedTidy, RemovedGathered DEF Tidy, Plain
<1> HIDE DEF c
<1>5. ASSUME copy' = MovedToBottom(c, n, front.live) PROVE Gathered(copy'.order, copy'.group)
  <2> DEFINE d == Moved(c, n, all, "bottom")
  <2>1. PICK o : d = [c EXCEPT !.order = o] /\ Rearranges(o, c, all, {n})
    BY <1>3, <1>4, MovedShows
  <2>2. copy' = d
    BY <1>5 DEF MovedToBottom
  <2> HIDE DEF d
  <2>3. d.order = o /\ d.group = c.group
    BY <1>4, <2>1 DEF SettingsOK, Configs
  <2> QED  BY <2>1, <2>2, <2>3 DEF Rearranges
<1>6. ASSUME copy' = Grouped(c, n, id, front.live) PROVE Gathered(copy'.order, copy'.group)
  <2> DEFINE d == Grouped(c, n, id, front.live)
  <2>1. Gathered(d.order, d.group)
    BY <1>2, <1>3, <1>4, GroupedGathered
  <2>2. copy' = d
    BY <1>6
  <2> HIDE DEF d
  <2> QED  BY <2>1, <2>2
<1> QED  BY <1>1, <1>5, <1>6

LEMMA CloseGathers ==
    ASSUME GInv, NEW n \in Names, Close(n)
    PROVE  Gathered(copy'.order, copy'.group)
<1> DEFINE d == Removed(copy, n)
<1>1. SettingsOK(copy) /\ Gathered(copy.order, copy.group)
  BY GInvFacts
<1>2. Gathered(d.order, d.group)
  BY <1>1, RemovedGathered
<1> HIDE DEF d
<1>3. copy' = copy \/ copy' = d
  BY DEF Close, d
<1> QED  BY <1>1, <1>2, <1>3

LEMMA EditsShown ==
    ASSUME GInv, NEW n \in front.live,
           \/ NewGroup(n) \/ LeaveGroup(n) \/ Mark(n)
           \/ (\E to \in {"up", "down", "top", "bottom"} : Move(n, to))
           \/ \E id \in Groups : JoinGroup(n, id)
    PROVE  EditIsShown /\ Gathered(copy'.order, copy'.group) /\ DOMAIN spent' = DOMAIN spent
<1>1. Tidy(copy) /\ SettingsOK(copy) /\ Gathered(copy.order, copy.group)
  BY GInvFacts
<1>2. CASE NewGroup(n)
  <2> DEFINE c == GroupAdded(copy)
             d == Grouped(c, n, NewId(copy), front.live)
  <2>1. FreeIds(copy) # {} /\ Edit(d)
    BY <1>2 DEF NewGroup
  <2>2. SettingsOK(c)
    BY <1>1, <2>1, GroupAddedOK
  <2>3. c.order = copy.order /\ c.group = copy.group
    BY <1>1 DEF GroupAdded, SettingsOK, Configs
  <2> HIDE DEF c
  <2>4. copy' = d
    BY <2>1 DEF Edit
  <2>5. EditIsShown /\ Gathered(copy'.order, copy'.group)
    BY <2>2, <2>3, <2>4, GroupEdit
  <2> HIDE DEF d
  <2> QED  BY <2>1, <2>5, EditSpends
<1>3. CASE LeaveGroup(n)
  <2>1. Edit(Grouped(copy, n, Nobody, front.live))
    BY <1>3 DEF LeaveGroup
  <2>2. copy' = Grouped(copy, n, Nobody, front.live)
    BY <2>1 DEF Edit
  <2> QED  BY <1>1, <2>1, <2>2, GroupEdit, EditSpends
<1>4. CASE Mark(n)
  <2> DEFINE d == Marked(copy, n, n \notin copy.marked)
  <2>1. Edit(d)
    BY <1>4 DEF Mark
  <2>2. copy' = d
    BY <2>1 DEF Edit
  <2>3. d.order = copy.order /\ d.group = copy.group
    BY <1>1 DEF Marked, SettingsOK, Configs
  <2> HIDE DEF d
  <2> QED  BY <1>1, <2>1, <2>2, <2>3, EditSpends DEF EditIsShown
<1>5. ASSUME NEW to \in {"up", "down", "top", "bottom"}, Move(n, to)
      PROVE  EditIsShown /\ Gathered(copy'.order, copy'.group) /\ DOMAIN spent' = DOMAIN spent
  <2>1. EditIsShown /\ Gathered(copy'.order, copy'.group)
    BY <1>5, MoveShown
  <2>2. DOMAIN spent' = DOMAIN spent
    BY <1>5, EditSpends DEF Move
  <2> QED  BY <2>1, <2>2
<1>6. ASSUME NEW id \in Groups, JoinGroup(n, id)
      PROVE  EditIsShown /\ Gathered(copy'.order, copy'.group) /\ DOMAIN spent' = DOMAIN spent
  <2>1. Edit(Grouped(copy, n, id, front.live))
    BY <1>6 DEF JoinGroup
  <2>2. copy' = Grouped(copy, n, id, front.live)
    BY <2>1 DEF Edit
  <2> QED  BY <1>1, <2>1, <2>2, GroupEdit, EditSpends
<1> QED  BY <1>2, <1>3, <1>4, <1>5, <1>6

LEMMA GroupEditsShown ==
    ASSUME GInv, NEW id \in Groups, Ungroup(id) \/ MoveGroup(id, "up") \/ MoveGroup(id, "down")
    PROVE  EditIsShown /\ Gathered(copy'.order, copy'.group) /\ DOMAIN spent' = DOMAIN spent
<1>1. EditIsShown /\ Gathered(copy'.order, copy'.group)
  BY UngroupShown, MoveGroupShown
<1>2. \E c : Edit(c)
  BY DEF Ungroup, MoveGroup
<1> QED  BY <1>1, <1>2, EditSpends

(* Every step but an edit leaves the number of edits alone, and an edit is *)
(* shown.                                                                  *)
LEMMA NextIsShown ==
    ASSUME GInv, [Next]_vars
    PROVE  /\ NoEdit \/ EditIsShown
           /\ Gathered(copy'.order, copy'.group)
           /\ DOMAIN spent' = DOMAIN spent
<1> DEFINE Goal == /\ NoEdit \/ EditIsShown
                   /\ Gathered(copy'.order, copy'.group)
                   /\ DOMAIN spent' = DOMAIN spent
<1> SUFFICES Goal
  OBVIOUS
<1>0. Gathered(copy.order, copy.group)
  BY GInvFacts
<1>1. ASSUME UNCHANGED copy, NoEdit PROVE Goal
  BY <1>0, <1>1 DEF NoEdit
<1>2. CASE Run \/ SpawnFails \/ Fault
  <2>1. /\ UNCHANGED copy
        /\ \/ spent' = [spent EXCEPT !.failures = @ + 1] \/ UNCHANGED spent
           \/ spent' = [spent EXCEPT !.faults = @ + 1]
    BY <1>2 DEF Run, SpawnFails, Fault, DiskFills, DiskDrains, FileSpoils
  <2> QED  BY <1>1, <2>1, StepIsNoEdit
<1>3. CASE NewWorkspace
  <2>1. Step
    BY <1>3 DEF NewWorkspace
  <2> QED  BY <1>3, <2>1, StepIsNoEdit, NewWorkspaceGathers DEF NoEdit
<1>4. ASSUME NEW n \in Names,
             \/ SwitchToWorkspace(n) \/ Activate(n) \/ Close(n) \/ Ends(n)
             \/ \E m \in Names : Rename(n, m)
      PROVE  Goal
  <2>1. Step
    BY <1>4 DEF SwitchToWorkspace, Activate, Close, Ends, Rename
  <2>2. NoEdit
    BY <2>1, StepIsNoEdit
  <2>3. CASE Close(n)
    BY <2>2, <2>3, CloseGathers DEF NoEdit
  <2>4. CASE ~Close(n)
    <3>1. UNCHANGED copy
      BY <1>4, <2>4 DEF SwitchToWorkspace, Activate, Ends, Rename
    <3> QED  BY <1>1, <2>2, <3>1
  <2> QED  BY <2>3, <2>4
<1>5. ASSUME NEW n \in front.live,
             \/ NewGroup(n) \/ LeaveGroup(n) \/ Mark(n)
             \/ (\E to \in {"up", "down", "top", "bottom"} : Move(n, to))
             \/ \E id \in Groups : JoinGroup(n, id)
      PROVE  Goal
  <2>1. EditIsShown /\ Gathered(copy'.order, copy'.group) /\ DOMAIN spent' = DOMAIN spent
    BY <1>5, EditsShown
  <2> QED  BY <2>1
<1>6. ASSUME NEW id \in Groups, Ungroup(id) \/ MoveGroup(id, "up") \/ MoveGroup(id, "down")
      PROVE  Goal
  BY <1>6, GroupEditsShown
<1>7. CASE UNCHANGED vars
  <2>1. UNCHANGED copy /\ UNCHANGED spent
    BY <1>7 DEF vars
  <2> QED  BY <1>1, <2>1, StepIsNoEdit
<1> HIDE DEF Goal
<1> QED  BY <1>2, <1>3, <1>4, <1>5, <1>6, <1>7 DEF Next, Fault

LEMMA InitGInv == Init => GInv
<1> SUFFICES ASSUME Init PROVE GInv
  OBVIOUS
<1>1. SInv
  BY InitSInv
<1>2. Gathered(copy.order, copy.group)
  <2>1. copy.order = <<>>
    BY DEF Init, NoConfigs
  <2> QED  BY <2>1, PrecEmpty DEF Gathered
<1>3. DOMAIN spent = {"edits", "moves", "failures", "faults"}
  BY DEF Init
<1> QED  BY <1>1, <1>2, <1>3 DEF GInv

LEMMA NextGInv == GInv /\ [Next]_vars => GInv'
<1> SUFFICES ASSUME GInv, [Next]_vars PROVE GInv'
  OBVIOUS
<1>1. SInv'
  BY NextSInv DEF GInv
<1>2. Gathered(copy'.order, copy'.group) /\ DOMAIN spent' = DOMAIN spent
  BY NextIsShown
<1> QED  BY <1>1, <1>2 DEF GInv, Gathered, Prec, Together

(* The order the copy keeps never has a workspace between two of a group   *)
(* it is not in.                                                           *)
THEOREM OrderKeepsGroupsTogether == Spec => []GInv
  BY InitGInv, NextGInv, PTL DEF Spec

(* Whatever the user moves, joins, leaves or deletes, the sidebar shows it *)
(* and nothing else: the others keep their order, a member is added at the *)
(* end of its group or put below the one it leaves, and deleting a group   *)
(* moves nobody (move_workspace, move_group, set_workspace_group and       *)
(* ungroup of workspace_config.rs).                                        *)
THEOREM EditsMoveOneThing == Spec => EditMovesOneThing
<1>1. GInv /\ [Next]_vars =>
        [spent'.edits # spent.edits /\ <<copy'.order, copy'.group>> # <<copy.order, copy.group>> =>
           \A before \in {Display(copy, front.live)}, after \in {Display(copy', front.live)} :
             /\ OthersKeepTheirOrder(before, after)
             /\ JoinsLastLeavesBelow(after)
             /\ UngroupMovesNothing(before, after)]_vars
  <2> SUFFICES ASSUME GInv, [Next]_vars,
                      spent'.edits # spent.edits, <<copy'.order, copy'.group>> # <<copy.order, copy.group>>
               PROVE  MovesOneThing(Display(copy, front.live), Display(copy', front.live))
    BY DEF MovesOneThing
  <2> QED  BY NextIsShown DEF NoEdit, EditIsShown
<1> QED  BY <1>1, OrderKeepsGroupsTogether, PTL DEF Spec, EditMovesOneThing
=============================================================================

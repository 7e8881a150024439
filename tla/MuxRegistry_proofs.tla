------------------------- MODULE MuxRegistry_proofs -------------------------
(* That the mux's registry keeps its windows, tabs and panes together, for *)
(* any number of spawns and any length of the queue.                       *)
EXTENDS MuxRegistry, FiniteSetTheorems, SequenceTheorems, WellFoundedInduction, TLAPS

(* A set of numbers that has some has a least. *)
LEMMA LeastOf ==
    ASSUME NEW S \in SUBSET Nat, S # {}
    PROVE  \E least \in S : \A k \in S : least <= k
<1> DEFINE R == OpToRel(<, Nat)
<1>1. \A x, y \in Nat : x < y => <<x, y>> \in R
  BY DEF OpToRel
<1>2. IsWellFoundedOn(R, Nat)
  BY NatLessThanWellFounded
<1> HIDE DEF R
<1>3. PICK least \in S : \A y \in S : <<y, least>> \notin R
  BY <1>2, WFMin
<1>4. least \in Nat /\ \A k \in S : k \in Nat /\ ~(k < least)
  BY <1>1, <1>3
<1>5. \A k \in S : least <= k
  BY <1>4
<1> QED  BY <1>5

(* Induction up to n, over a set of numbers. *)
LEMMA UpTo ==
    ASSUME NEW n \in Nat, NEW S, 0 \in S, \A i \in 1 .. n : i - 1 \in S => i \in S
    PROVE  \A i \in 0 .. n : i \in S
<1> DEFINE Bad == (0 .. n) \ S
<1>1. SUFFICES ASSUME Bad # {} PROVE FALSE
  OBVIOUS
<1>2. Bad \in SUBSET Nat
  OBVIOUS
<1>3. PICK least \in Bad : \A k \in Bad : least <= k
  <2> HIDE DEF Bad
  <2> QED  BY <1>1, <1>2, LeastOf
<1>4. least \in 1 .. n /\ least - 1 \notin Bad
  BY <1>3
<1> QED  BY <1>4

(* What is defined by recursion over 0 .. n exists.  A step is a function  *)
(* of the number and of the value before.                                  *)
IsRun(g, n, T, b, F) ==
    g \in [0 .. n -> T] /\ g[0] = b /\ \A i \in 1 .. n : g[i] = F[i][g[i - 1]]

IsStep(F, n, T) == F \in [1 .. n -> [T -> T]]

LEMMA Recursion ==
    ASSUME NEW n \in Nat, NEW T, NEW b \in T, NEW F, IsStep(F, n, T)
    PROVE  \E g : IsRun(g, n, T, b, F)
<1>0. F \in [1 .. n -> [T -> T]]
  BY DEF IsStep
<1> DEFINE Runs(k) == {g \in [0 .. k -> T] : g[0] = b /\ \A i \in 1 .. k : g[i] = F[i][g[i - 1]]}
           S == {k \in 0 .. n : Runs(k) # {}}
<1>1. 0 \in S
  <2>1. [i \in 0 .. 0 |-> b] \in Runs(0)
    OBVIOUS
  <2> HIDE DEF Runs
  <2> QED  BY <2>1
<1>2. ASSUME NEW k \in 1 .. n, k - 1 \in S PROVE k \in S
  <2>1. PICK g \in Runs(k - 1) : TRUE
    BY <1>2
  <2>2. g \in [0 .. k - 1 -> T] /\ g[0] = b /\ \A i \in 1 .. k - 1 : g[i] = F[i][g[i - 1]]
    BY <2>1
  <2> HIDE DEF Runs, S
  <2>3. /\ k \in 1 .. n /\ 0 \in 0 .. k /\ k \in 0 .. k /\ k - 1 \in 0 .. k - 1 /\ 0 # k
        /\ \A i \in 0 .. k : i = k \/ i \in 0 .. k - 1
        /\ \A i \in 0 .. k - 1 : i # k /\ i \in 0 .. k
        /\ \A i \in 1 .. k : i - 1 \in 0 .. k - 1 /\ i \in 0 .. k /\ (i = k \/ i \in 1 .. k - 1)
    OBVIOUS
  <2> DEFINE h == [i \in 0 .. k |-> IF i = k THEN F[k][g[k - 1]] ELSE g[i]]
  <2>4. F[k][g[k - 1]] \in T
    BY <1>0, <2>2, <2>3
  <2>5. h \in [0 .. k -> T]
    BY <2>2, <2>3, <2>4
  <2>6. h[0] = b /\ h[k] = F[k][g[k - 1]] /\ \A i \in 0 .. k - 1 : h[i] = g[i]
    BY <2>2, <2>3
  <2> HIDE DEF h
  <2>7. \A i \in 1 .. k : h[i] = F[i][h[i - 1]]
    BY <2>2, <2>3, <2>6
  <2>8. h \in Runs(k)
    BY <2>5, <2>6, <2>7 DEF Runs
  <2> QED  BY <2>8 DEF S
<1> HIDE DEF S
<1>3. n \in 0 .. n /\ \A i \in 1 .. n : i - 1 \in S => i \in S
  BY <1>2
<1>4. n \in S
  BY <1>1, <1>3, UpTo
<1> QED  BY <1>4 DEF S, Runs, IsRun
-----------------------------------------------------------------------------
(* Appending adds one element, and keeps what is distinct so if it is new. *)
LEMMA AppendFacts ==
    ASSUME NEW s \in Seq(Ids), NEW t \in Ids
    PROVE  /\ Append(s, t) \in Seq(Ids)
           /\ \A x : x \in Range(Append(s, t)) <=> x \in Range(s) \/ x = t
           /\ IsInjective(s) /\ t \notin Range(s) => IsInjective(Append(s, t))
<1> DEFINE r == Append(s, t)
           n == Len(s)
<1>1. /\ r \in Seq(Ids) /\ n \in Nat /\ DOMAIN s = 1 .. n /\ DOMAIN r = 1 .. n + 1
      /\ r[n + 1] = t /\ \A i \in 1 .. n : r[i] = s[i]
  OBVIOUS
<1> HIDE DEF r, n
<1>2. /\ n + 1 \in 1 .. n + 1 /\ \A i \in 1 .. n : i \in 1 .. n + 1
      /\ \A i \in 1 .. n + 1 : i = n + 1 \/ i \in 1 .. n
  BY <1>1
<1>3. \A x : x \in Range(r) <=> x \in Range(s) \/ x = t
  BY <1>1, <1>2 DEF Range
<1>4. IsInjective(s) /\ t \notin Range(s) => IsInjective(r)
  BY <1>1, <1>2 DEF Range, IsInjective
<1> QED  BY <1>1, <1>3, <1>4 DEF r

(* What is retained of a window's tabs: those that stay, each as often.    *)
LEMMA RetainedFacts ==
    ASSUME NEW s \in Seq(Ids), NEW left
    PROVE  /\ Retained(s, left) \in Seq(Ids)
           /\ Range(Retained(s, left)) = Range(s) \cap left
           /\ IsInjective(s) => IsInjective(Retained(s, left))
<1> DEFINE n == Len(s)
           Step(f) == [i \in 0 .. n |->
                         IF i = 0 THEN <<>>
                         ELSE IF s[i] \in left THEN Append(f[i - 1], s[i]) ELSE f[i - 1]]
           upto == CHOOSE f : f = Step(f)
           Good == {i \in 0 .. n :
                      /\ upto[i] \in Seq(Ids)
                      /\ \A x : x \in Range(upto[i]) <=> x \in left /\ \E j \in 1 .. i : x = s[j]
                      /\ IsInjective(s) => IsInjective(upto[i])}
<1>1. Retained(s, left) = upto[n]
  BY DEF Retained
<1>2. n \in Nat /\ DOMAIN s = 1 .. n /\ \A i \in 1 .. n : s[i] \in Ids
  OBVIOUS
<1>3. upto = Step(upto)
  <2> DEFINE F == [i \in 1 .. n |-> [r \in Seq(Ids) |->
                     IF s[i] \in left THEN Append(r, s[i]) ELSE r]]
  <2>1. F \in [1 .. n -> [Seq(Ids) -> Seq(Ids)]]
    BY <1>2
  <2>2. PICK g : IsRun(g, n, Seq(Ids), <<>>, F)
    <3>1. IsStep(F, n, Seq(Ids)) /\ <<>> \in Seq(Ids)
      BY <2>1 DEF IsStep
    <3> HIDE DEF F, n
    <3> QED  BY <1>2, <3>1, Recursion
  <2>3. ASSUME NEW i \in 1 .. n
        PROVE  g[i] = IF s[i] \in left THEN Append(g[i - 1], s[i]) ELSE g[i - 1]
    <3>0. i - 1 \in 0 .. n
      <4> HIDE DEF n
      <4> QED  BY <1>2
    <3>1. g[i - 1] \in Seq(Ids)
      BY <2>2, <3>0 DEF IsRun
    <3> QED  BY <2>2, <3>1 DEF IsRun
  <2>4. g = Step(g)
    <3> HIDE DEF F, n
    <3>1. \A i \in 0 .. n : i = 0 \/ i \in 1 .. n
      BY <1>2
    <3>2. \A i \in 0 .. n : g[i] = Step(g)[i]
      BY <2>2, <2>3, <3>1 DEF IsRun
    <3> QED  BY <2>2, <3>2 DEF IsRun
  <2> HIDE DEF Step
  <2> QED  BY <2>4
<1>4. /\ upto[0] = <<>>
      /\ \A i \in 1 .. n : upto[i] = IF s[i] \in left THEN Append(upto[i - 1], s[i]) ELSE upto[i - 1]
  <2>1. 0 \in 0 .. n /\ \A i \in 1 .. n : i \in 0 .. n /\ i # 0
    BY <1>2
  <2>2. \A i \in 0 .. n : upto[i] = Step(upto)[i]
    BY <1>3
  <2> HIDE DEF upto
  <2> QED  BY <2>1, <2>2
<1> HIDE DEF upto, Step
<1> HIDE DEF n
<1>5. 0 \in Good
  <2>1. /\ <<>> \in Seq(Ids) /\ DOMAIN <<>> = {} /\ Range(<<>>) = {} /\ IsInjective(<<>>)
        /\ 0 \in 0 .. n /\ 1 .. 0 = {}
    BY <1>2 DEF Range, IsInjective
  <2> QED  BY <1>4, <2>1
<1>6. ASSUME NEW i \in 1 .. n, i - 1 \in Good PROVE i \in Good
  <2> DEFINE u == upto[i - 1]
             v == upto[i]
  <2>1. /\ u \in Seq(Ids) /\ (IsInjective(s) => IsInjective(u))
        /\ \A x : x \in Range(u) <=> x \in left /\ \E j \in 1 .. i - 1 : x = s[j]
    BY <1>6
  <2>2. /\ i \in 0 .. n /\ i \in 1 .. i /\ s[i] \in Ids
        /\ \A j \in 1 .. i - 1 : j \in 1 .. i /\ j \in 1 .. n /\ j # i
        /\ \A j \in 1 .. i : j = i \/ j \in 1 .. i - 1
    BY <1>2
  <2>3. v = IF s[i] \in left THEN Append(u, s[i]) ELSE u
    BY <1>4
  <2> HIDE DEF u, v
  <2>4. CASE s[i] \in left
    <3>1. v = Append(u, s[i])
      BY <2>3, <2>4
    <3>0. u \in Seq(Ids) /\ s[i] \in Ids
      BY <2>1, <2>2
    <3>2. v \in Seq(Ids) /\ \A x : x \in Range(v) <=> x \in Range(u) \/ x = s[i]
      BY <3>0, <3>1, AppendFacts
    <3>3. IsInjective(s) => s[i] \notin Range(u)
      BY <2>1, <2>2, <1>2 DEF IsInjective
    <3>4. IsInjective(s) => IsInjective(v)
      BY <2>1, <3>0, <3>1, <3>3, AppendFacts
    <3>5. \A x : x \in Range(v) <=> x \in left /\ \E j \in 1 .. i : x = s[j]
      BY <2>1, <2>2, <2>4, <3>2
    <3> QED  BY <2>2, <3>2, <3>4, <3>5 DEF v
  <2>5. CASE s[i] \notin left
    <3>1. v = u
      BY <2>3, <2>5
    <3>2. \A x : x \in Range(v) <=> x \in left /\ \E j \in 1 .. i : x = s[j]
      BY <2>1, <2>2, <2>5, <3>1
    <3>3. v \in Seq(Ids) /\ (IsInjective(s) => IsInjective(v))
      BY <2>1, <3>1
    <3> QED  BY <2>2, <3>2, <3>3 DEF v
  <2> QED  BY <2>4, <2>5
<1>7. n \in Good
  <2> HIDE DEF Good
  <2>1. n \in 0 .. n
    BY <1>2
  <2> QED  BY <1>2, <1>5, <1>6, <2>1, UpTo
<1>8. \A x : x \in Range(s) <=> \E j \in 1 .. n : x = s[j]
  BY DEF n, Range
<1> HIDE DEF n
<1> QED  BY <1>1, <1>7, <1>8
(* Tabs put behind others, none of which they are.                         *)
LEMMA ConcatFacts ==
    ASSUME NEW s \in Seq(Ids), NEW t \in Seq(Ids)
    PROVE  /\ s \o t \in Seq(Ids)
           /\ \A x : x \in Range(s \o t) <=> x \in Range(s) \/ x \in Range(t)
           /\ IsInjective(s) /\ IsInjective(t) /\ Range(s) \cap Range(t) = {} => IsInjective(s \o t)
<1> DEFINE r == s \o t
           k == Len(s)
           l == Len(t)
<1>1. /\ r \in Seq(Ids) /\ k \in Nat /\ l \in Nat
      /\ DOMAIN s = 1 .. k /\ DOMAIN t = 1 .. l /\ DOMAIN r = 1 .. k + l
      /\ \A i \in 1 .. k + l : r[i] = IF i <= k THEN s[i] ELSE t[i - k]
  BY ConcatProperties, LenProperties
<1>2. Range(r) = Range(s) \cup Range(t)
  BY RangeConcatenation
<1> HIDE DEF r, k, l
<1>3. ASSUME IsInjective(s), IsInjective(t), Range(s) \cap Range(t) = {} PROVE IsInjective(r)
  <2>1. SUFFICES ASSUME NEW i \in 1 .. k + l, NEW j \in 1 .. k + l, r[i] = r[j] PROVE i = j
    BY <1>1 DEF IsInjective
  <2>2. /\ i \in Nat /\ j \in Nat
        /\ (i <= k => i \in DOMAIN s) /\ (~(i <= k) => i - k \in DOMAIN t)
        /\ (j <= k => j \in DOMAIN s) /\ (~(j <= k) => j - k \in DOMAIN t)
    BY <1>1
  <2>3. CASE i <= k /\ j <= k
    BY <1>1, <1>3, <2>1, <2>2, <2>3 DEF IsInjective
  <2>4. CASE ~(i <= k) /\ ~(j <= k)
    <3>1. t[i - k] = t[j - k]
      BY <1>1, <2>1, <2>4
    <3>2. i - k = j - k
      BY <1>3, <2>2, <2>4, <3>1 DEF IsInjective
    <3> QED  BY <1>1, <2>2, <3>2
  <2>5. CASE (i <= k) # (j <= k)
    <3>1. \A a \in DOMAIN s, b \in DOMAIN t : s[a] # t[b]
      BY <1>3 DEF Range
    <3> QED  BY <1>1, <2>1, <2>2, <2>5, <3>1
  <2> QED  BY <2>3, <2>4, <2>5
<1> QED  BY <1>1, <1>2, <1>3 DEF r

(* The sequence of the elements of a finite set.                           *)
LEMMA SetToSeqFacts ==
    ASSUME NEW S, IsFiniteSet(S)
    PROVE  SetToSeq(S) \in Seq(S) /\ \A i \in DOMAIN SetToSeq(S) : SetToSeq(S)[i] \in S
<1> DEFINE n == Cardinality(S)
<1>1. n \in Nat /\ ExistsBijection(1 .. n, S)
  BY FS_CardinalityType
<1>2. \E f \in [1 .. n -> S] : IsInjective(f)
  BY <1>1 DEF ExistsBijection, Bijection, Injection, IsInjective
<1>3. SetToSeq(S) \in [1 .. n -> S]
  BY <1>2 DEF SetToSeq
<1> QED  BY <1>1, <1>3
-----------------------------------------------------------------------------
(* What holds of the registry at every step of a handler.                  *)

Kinds == {"spawn", "prune", "remove", "reconcile", "empty"}
Tasks == [kind : Kinds, id : Ids]

Registries ==
    [open : SUBSET Ids, list : [Ids -> Seq(Ids)], tabs : SUBSET Ids, panes : SUBSET Ids,
     spawned : Seq(Tasks)]

(* A tab is in one window at most, once, and known; windows that are gone  *)
(* hold none.                                                              *)
Once(r) ==
    /\ \A w \in Ids : /\ IsInjective(r.list[w])
                      /\ Range(r.list[w]) \subseteq r.tabs
                      /\ w \notin r.open => r.list[w] = <<>>
    /\ \A v, w \in Ids : v # w => Range(r.list[v]) \cap Range(r.list[w]) = {}

(* A task that a handler queues asks to remove only a pane among those of  *)
(* ids that has ended or left the mux, and says that the mux is empty only *)
(* when it is.                                                             *)
Grounded(task, r, gone, ids) ==
    /\ task.kind # "spawn"
    /\ task.kind = "remove" => task.id \in ids /\ (task.id \in gone \/ task.id \notin r.panes)
    /\ task.kind = "empty" => r.panes = {}

Fine(r, gone, ids) ==
    /\ r \in Registries /\ Once(r) /\ r.tabs \subseteq ids
    /\ \A i \in DOMAIN r.spawned : Grounded(r.spawned[i], r, gone, ids)

(* From r to x, only panes that have ended were lost.                      *)
Thins(r, x, gone) ==
    /\ x.open \subseteq r.open /\ x.tabs \subseteq r.tabs /\ x.panes \subseteq r.panes
    /\ r.panes \ x.panes \subseteq gone

(* From r to x, no tab has come to be in no window.                        *)
Keeps(r, x) == x.tabs \ Listed(x) \subseteq r.tabs \ Listed(r)

LEMMA IdsFinite == IsFiniteSet(Ids) /\ Spawns \in Nat /\ Ids = 0 .. Spawns /\ Spawners \subseteq Ids
  BY RegistryAssumption, FS_Interval DEF Ids, Spawners

LEMMA TaskTyped ==
    ASSUME NEW kind \in Kinds, NEW id \in Ids
    PROVE  Task(kind, id) \in Tasks /\ Task(kind, id).kind = kind /\ Task(kind, id).id = id
  BY DEF Task, Tasks

LEMMA ListedIn ==
    ASSUME NEW r \in Registries, Once(r)
    PROVE  \A t : t \in Listed(r) <=> \E w \in Ids : t \in Range(r.list[w])
<1>1. \A w \in Ids : w \notin r.open => Range(r.list[w]) = {}
  BY DEF Once, Range
<1>2. r.open \subseteq Ids
  BY DEF Registries
<1> QED  BY <1>1, <1>2 DEF Listed

(* Behind what was queued comes more that is grounded.                     *)
LEMMA ConcatGrounded ==
    ASSUME NEW r, NEW x, NEW gone, NEW ids, NEW p \in Seq(Tasks), NEW q \in Seq(Tasks),
           x.panes \subseteq r.panes,
           \A i \in DOMAIN p : Grounded(p[i], r, gone, ids),
           \A i \in DOMAIN q : Grounded(q[i], x, gone, ids)
    PROVE  /\ p \o q \in Seq(Tasks)
           /\ \A i \in DOMAIN (p \o q) : Grounded((p \o q)[i], x, gone, ids)
<1> DEFINE k == Len(p)
           l == Len(q)
<1>1. /\ p \o q \in Seq(Tasks) /\ k \in Nat /\ l \in Nat
      /\ DOMAIN p = 1 .. k /\ DOMAIN q = 1 .. l /\ DOMAIN (p \o q) = 1 .. k + l
      /\ \A i \in 1 .. k + l : (p \o q)[i] = IF i <= k THEN p[i] ELSE q[i - k]
  BY ConcatProperties, LenProperties
<1> HIDE DEF k, l
<1>2. \A i \in 1 .. k + l : (i <= k => i \in 1 .. k) /\ (~(i <= k) => i - k \in 1 .. l)
  BY <1>1
<1>3. ASSUME NEW task, Grounded(task, r, gone, ids) PROVE Grounded(task, x, gone, ids)
  BY <1>3 DEF Grounded
<1> QED  BY <1>1, <1>2, <1>3

(* Windows that leave the mux take their tabs along and no others.         *)
LEMMA RemoveWindowsFacts ==
    ASSUME NEW r, NEW gone, NEW ids, Fine(r, gone, ids), NEW ws \in SUBSET r.open
    PROVE  LET x == RemoveWindows(r, ws)
               lost == UNION {Range(r.list[w]) : w \in ws}
           IN /\ Fine(x, gone, ids)
              /\ x.open = r.open \ ws /\ x.tabs = r.tabs \ lost /\ x.panes = r.panes \ lost
              /\ Keeps(r, x)
<1> DEFINE x == RemoveWindows(r, ws)
           lost == UNION {Range(r.list[w]) : w \in ws}
           more == [i \in 1 .. Cardinality(ws) |-> Task("reconcile", 0)]
<1>1. r \in Registries /\ Once(r) /\ ws \subseteq Ids /\ r.open \subseteq Ids
  BY DEF Fine, Registries
<1>2. more \in Seq(Tasks) /\ \A i \in DOMAIN more : Grounded(more[i], x, gone, ids)
  <2>1. Cardinality(ws) \in Nat
    BY <1>1, IdsFinite, FS_Subset, FS_CardinalityType
  <2>2. /\ Task("reconcile", 0) \in Tasks
        /\ Grounded(Task("reconcile", 0), x, gone, ids)
    <3>1. 0 \in Ids /\ "reconcile" \in Kinds
      BY IdsFinite DEF Kinds
    <3> QED  BY <3>1, TaskTyped DEF Grounded
  <2> HIDE DEF x
  <2> QED  BY <2>1, <2>2
<1>3. /\ x.open = r.open \ ws /\ x.tabs = r.tabs \ lost /\ x.panes = r.panes \ lost
      /\ x.list = [w \in Ids |-> IF w \in ws THEN <<>> ELSE r.list[w]]
      /\ x.spawned = r.spawned \o more
      /\ x = [open |-> x.open, list |-> x.list, tabs |-> x.tabs, panes |-> x.panes, spawned |-> x.spawned]
  <2> HIDE DEF lost, more
  <2>1. x = [open |-> r.open \ ws, list |-> [w \in Ids |-> IF w \in ws THEN <<>> ELSE r.list[w]],
             tabs |-> r.tabs \ lost, panes |-> r.panes \ lost, spawned |-> r.spawned \o more]
    <3>1. /\ DOMAIN r = {"open", "list", "tabs", "panes", "spawned"}
          /\ r = [open |-> r.open, list |-> r.list, tabs |-> r.tabs, panes |-> r.panes, spawned |-> r.spawned]
      BY <1>1 DEF Registries
    <3>2. x = [r EXCEPT !.open = r.open \ ws,
                        !.list = [w \in Ids |-> IF w \in ws THEN <<>> ELSE r.list[w]],
                        !.tabs = r.tabs \ lost, !.panes = r.panes \ lost,
                        !.spawned = r.spawned \o more]
      BY DEF RemoveWindows, lost, more
    <3> HIDE DEF x
    <3> QED  BY <3>1, <3>2
  <2> HIDE DEF x
  <2> QED  BY <2>1
<1> HIDE DEF x, lost, more
<1>4. x.spawned \in Seq(Tasks) /\ \A i \in DOMAIN x.spawned : Grounded(x.spawned[i], x, gone, ids)
  <2>1. r.spawned \in Seq(Tasks) /\ \A i \in DOMAIN r.spawned : Grounded(r.spawned[i], r, gone, ids)
    BY <1>1 DEF Fine, Registries
  <2>2. x.panes \subseteq r.panes
    BY <1>3
  <2>3. /\ r.spawned \o more \in Seq(Tasks)
        /\ \A i \in DOMAIN (r.spawned \o more) : Grounded((r.spawned \o more)[i], x, gone, ids)
    BY <1>2, <2>1, <2>2, ConcatGrounded
  <2> QED  BY <1>3, <2>3
<1>5. \A w \in Ids : /\ x.list[w] \in Seq(Ids)
                     /\ x.list[w] = IF w \in ws THEN <<>> ELSE r.list[w]
  <2>1. <<>> \in Seq(Ids) /\ \A w \in Ids : r.list[w] \in Seq(Ids)
    BY <1>1 DEF Registries
  <2> QED  BY <1>3, <2>1
<1>6. x \in Registries
  <2>1. x.list \in [Ids -> Seq(Ids)]
    BY <1>3, <1>5
  <2>2. x.open \subseteq Ids /\ x.tabs \subseteq Ids /\ x.panes \subseteq Ids
    BY <1>1, <1>3 DEF Registries
  <2> QED  BY <1>3, <1>4, <2>1, <2>2 DEF Registries
<1>7. Range(<<>>) = {} /\ IsInjective(<<>>)
  BY DEF Range, IsInjective
<1>8. Once(x)
  <2>1. ASSUME NEW w \in Ids
        PROVE  /\ IsInjective(x.list[w]) /\ Range(x.list[w]) \subseteq x.tabs
               /\ (w \notin x.open => x.list[w] = <<>>)
    <3>1. CASE w \in ws
      BY <1>5, <1>7, <3>1
    <3>2. CASE w \notin ws
      <4>1. x.list[w] = r.list[w]
        BY <1>5, <3>2
      <4>2. Range(r.list[w]) \cap lost = {}
        BY <1>1, <3>2 DEF Once, lost
      <4>3. /\ IsInjective(r.list[w]) /\ Range(r.list[w]) \subseteq r.tabs
            /\ (w \notin r.open => r.list[w] = <<>>)
        BY <1>1 DEF Once
      <4> QED  BY <1>3, <3>2, <4>1, <4>2, <4>3
    <3> QED  BY <3>1, <3>2
  <2>2. ASSUME NEW v \in Ids, NEW w \in Ids, v # w
        PROVE  Range(x.list[v]) \cap Range(x.list[w]) = {}
    <3>1. Range(r.list[v]) \cap Range(r.list[w]) = {}
      BY <1>1, <2>2 DEF Once
    <3> QED  BY <1>5, <1>7, <3>1
  <2> QED  BY <2>1, <2>2 DEF Once
<1>9. Keeps(r, x)
  <2>1. \A t : t \in Listed(x) <=> \E w \in Ids : t \in Range(x.list[w])
    BY <1>6, <1>8, ListedIn
  <2>2. \A t : t \in Listed(r) <=> \E w \in Ids : t \in Range(r.list[w])
    BY <1>1, ListedIn
  <2> QED  BY <1>3, <1>5, <2>1, <2>2 DEF Keeps, lost
<1>10. x.tabs \subseteq ids
  BY <1>3 DEF Fine
<1> QED  BY <1>3, <1>4, <1>6, <1>8, <1>9, <1>10 DEF Fine, x, lost

LEMMA ThinsTrans ==
    ASSUME NEW r, NEW x, NEW y, NEW gone, Thins(r, x, gone), Thins(x, y, gone)
    PROVE  Thins(r, y, gone)
  BY DEF Thins

LEMMA KeepsTrans ==
    ASSUME NEW r, NEW x, NEW y, Keeps(r, x), Keeps(x, y)
    PROVE  Keeps(r, y)
  BY DEF Keeps

(* prune_dead_windows takes panes that have ended and no others, and no    *)
(* tab it leaves in the mux out of its window.                             *)
LEMMA PrunedFacts ==
    ASSUME NEW r, NEW gone, NEW ids, Fine(r, gone, ids)
    PROVE  /\ Fine(Pruned(r, gone), gone, ids)
           /\ Thins(r, Pruned(r, gone), gone)
           /\ Keeps(r, Pruned(r, gone))
<1> DEFINE doomed  == {t \in Listed(r) : t \in gone \/ t \notin r.panes}
           unknown == Listed(r) \ r.tabs
           strays  == {t \in r.tabs \ Listed(r) : t \in gone}
           left    == Ids \ (doomed \cup unknown)
           more    == SetToSeq({Task("remove", t) : t \in doomed})
           list    == [w \in Ids |-> Retained(r.list[w], left)]
           y       == [r EXCEPT !.list = list, !.tabs = r.tabs \ (doomed \cup strays),
                                !.panes = r.panes \ strays, !.spawned = r.spawned \o more]
           ws      == {w \in r.open : Len(y.list[w]) = 0}
           x       == RemoveWindows(y, ws)
<1>1. r \in Registries /\ Once(r) /\ r.tabs \subseteq ids /\ r.open \subseteq Ids /\ r.tabs \subseteq Ids
  BY DEF Fine, Registries
<1>2. Pruned(r, gone) = x
  BY <1>1 DEF Pruned, Registries
<1>3. /\ y.open = r.open /\ y.list = list /\ y.tabs = r.tabs \ (doomed \cup strays)
      /\ y.panes = r.panes \ strays /\ y.spawned = r.spawned \o more
      /\ y = [open |-> y.open, list |-> y.list, tabs |-> y.tabs, panes |-> y.panes, spawned |-> y.spawned]
  <2> HIDE DEF doomed, strays, list, more
  <2>1. /\ DOMAIN r = {"open", "list", "tabs", "panes", "spawned"}
        /\ r = [open |-> r.open, list |-> r.list, tabs |-> r.tabs, panes |-> r.panes, spawned |-> r.spawned]
    BY <1>1 DEF Registries
  <2>2. y = [r EXCEPT !.list = list, !.tabs = r.tabs \ (doomed \cup strays),
                      !.panes = r.panes \ strays, !.spawned = r.spawned \o more]
    OBVIOUS
  <2> HIDE DEF y
  <2> QED  BY <2>1, <2>2
<1> HIDE DEF y, x
<1>4. \A t : t \in Listed(r) <=> \E w \in Ids : t \in Range(r.list[w])
  BY <1>1, ListedIn
<1>5. Listed(r) \subseteq r.tabs /\ \A w \in Ids : Range(r.list[w]) \subseteq Listed(r)
  BY <1>1, <1>4 DEF Once
<1>6. ASSUME NEW w \in Ids
      PROVE  /\ y.list[w] \in Seq(Ids) /\ Range(y.list[w]) = Range(r.list[w]) \cap left
             /\ IsInjective(y.list[w])
  <2>1. r.list[w] \in Seq(Ids) /\ IsInjective(r.list[w])
    BY <1>1 DEF Registries, Once
  <2>2. y.list[w] = Retained(r.list[w], left)
    BY <1>3
  <2> HIDE DEF left
  <2> QED  BY <2>1, <2>2, RetainedFacts
<1>7. \A w \in Ids : Range(y.list[w]) = Range(r.list[w]) \ doomed
  BY <1>1, <1>5, <1>6
<1>8. more \in Seq(Tasks) /\ \A i \in DOMAIN more : Grounded(more[i], y, gone, ids)
  <2> DEFINE S == {Task("remove", t) : t \in doomed}
  <2>1. IsFiniteSet(S)
    <3>1. IsFiniteSet(doomed)
      BY <1>1, <1>5, IdsFinite, FS_Subset
    <3> HIDE DEF doomed
    <3> DEFINE f == [t \in doomed |-> Task("remove", t)]
    <3>2. f \in Surjection(doomed, S)
      BY DEF Surjection
    <3> QED  BY <3>1, <3>2, FS_Surjection
  <2>2. \A e \in S : e \in Tasks /\ Grounded(e, y, gone, ids)
    <3>1. SUFFICES ASSUME NEW t \in doomed
                   PROVE  Task("remove", t) \in Tasks /\ Grounded(Task("remove", t), y, gone, ids)
      OBVIOUS
    <3>2. t \in Ids /\ t \in ids /\ (t \in gone \/ t \notin y.panes) /\ "remove" \in Kinds
      BY <1>1, <1>3, <1>5 DEF Kinds
    <3> QED  BY <3>2, TaskTyped DEF Grounded
  <2> HIDE DEF S
  <2>3. more \in Seq(S) /\ \A i \in DOMAIN more : more[i] \in S
    BY <2>1, SetToSeqFacts DEF S
  <2> QED  BY <2>2, <2>3
<1> HIDE DEF more
<1>9. y \in Registries /\ \A i \in DOMAIN y.spawned : Grounded(y.spawned[i], y, gone, ids)
  <2>1. r.spawned \in Seq(Tasks) /\ \A i \in DOMAIN r.spawned : Grounded(r.spawned[i], r, gone, ids)
    BY <1>1 DEF Fine, Registries
  <2>2. y.panes \subseteq r.panes
    BY <1>3
  <2>3. /\ r.spawned \o more \in Seq(Tasks)
        /\ \A i \in DOMAIN (r.spawned \o more) : Grounded((r.spawned \o more)[i], y, gone, ids)
    BY <1>8, <2>1, <2>2, ConcatGrounded
  <2>4. y.list \in [Ids -> Seq(Ids)]
    BY <1>3, <1>6
  <2>5. y.open \subseteq Ids /\ y.tabs \subseteq Ids /\ y.panes \subseteq Ids
    BY <1>1, <1>3 DEF Registries
  <2>6. y.spawned = r.spawned \o more
    BY <1>3
  <2>7. y \in Registries
    BY <1>3, <2>3, <2>4, <2>5, <2>6 DEF Registries
  <2> QED  BY <2>3, <2>6, <2>7
<1>10. Once(y)
  <2>1. ASSUME NEW w \in Ids
        PROVE  /\ IsInjective(y.list[w]) /\ Range(y.list[w]) \subseteq y.tabs
               /\ (w \notin y.open => y.list[w] = <<>>)
    <3>1. Range(y.list[w]) \subseteq y.tabs
      BY <1>3, <1>5, <1>7
    <3>2. ASSUME w \notin y.open PROVE y.list[w] = <<>>
      <4>1. Range(r.list[w]) = {}
        BY <1>1, <1>3, <3>2 DEF Once, Range
      <4>2. y.list[w] \in Seq(Ids) /\ Range(y.list[w]) = {}
        BY <1>6, <4>1
      <4>3. Len(y.list[w]) = 0
        <5>1. Len(y.list[w]) # 0 => y.list[w][1] \in Range(y.list[w])
          BY <4>2 DEF Range
        <5> QED  BY <4>2, <5>1
      <4> QED  BY <4>2, <4>3, EmptySeq
    <3> QED  BY <1>6, <3>1, <3>2
  <2>2. ASSUME NEW v \in Ids, NEW w \in Ids, v # w
        PROVE  Range(y.list[v]) \cap Range(y.list[w]) = {}
    <3>1. Range(r.list[v]) \cap Range(r.list[w]) = {}
      BY <1>1, <2>2 DEF Once
    <3> QED  BY <1>7, <3>1
  <2> QED  BY <2>1, <2>2 DEF Once
<1>11. Fine(y, gone, ids)
  BY <1>1, <1>3, <1>9, <1>10 DEF Fine
<1>12. Keeps(r, y)
  <2>1. \A t : t \in Listed(y) <=> \E w \in Ids : t \in Range(y.list[w])
    BY <1>9, <1>10, ListedIn
  <2> QED  BY <1>3, <1>4, <1>7, <2>1 DEF Keeps
<1>13. /\ Fine(x, gone, ids) /\ Keeps(y, x) /\ x.open = y.open \ ws
       /\ x.tabs = y.tabs /\ x.panes = y.panes
  <2>1. ws \in SUBSET y.open
    BY <1>3
  <2>2. UNION {Range(y.list[w]) : w \in ws} = {}
    <3>1. ASSUME NEW w \in ws PROVE Range(y.list[w]) = {}
      <4>1. y.list[w] \in Seq(Ids) /\ Len(y.list[w]) = 0
        BY <1>1, <1>6
      <4> QED  BY <4>1, EmptySeq DEF Range
    <3> QED  BY <3>1
  <2> HIDE DEF ws
  <2>3. /\ Fine(x, gone, ids) /\ Keeps(y, x) /\ x.open = y.open \ ws
        /\ x.tabs = y.tabs \ UNION {Range(y.list[w]) : w \in ws}
        /\ x.panes = y.panes \ UNION {Range(y.list[w]) : w \in ws}
    BY <1>11, <2>1, RemoveWindowsFacts DEF x
  <2> QED  BY <2>2, <2>3
<1>14. Thins(r, x, gone)
  BY <1>3, <1>13 DEF Thins
<1> QED  BY <1>2, <1>12, <1>13, <1>14, KeepsTrans

(* A registry stays fine when no more than a task that is grounded joins   *)
(* those it spawns.                                                        *)
LEMMA PushEmpty ==
    ASSUME NEW r, NEW gone, NEW ids, Fine(r, gone, ids), r.panes = {}
    PROVE  LET x == Push(r, "empty")
           IN Fine(x, gone, ids) /\ Thins(r, x, gone) /\ Keeps(r, x)
<1> DEFINE x == Push(r, "empty")
           e == Task("empty", 0)
<1>1. r \in Registries /\ Once(r) /\ r.tabs \subseteq ids /\ r.spawned \in Seq(Tasks)
  BY DEF Fine, Registries
<1>2. /\ x.open = r.open /\ x.list = r.list /\ x.tabs = r.tabs /\ x.panes = r.panes
      /\ x.spawned = Append(r.spawned, e)
      /\ x = [open |-> x.open, list |-> x.list, tabs |-> x.tabs, panes |-> x.panes, spawned |-> x.spawned]
  <2> HIDE DEF e
  <2>1. /\ DOMAIN r = {"open", "list", "tabs", "panes", "spawned"}
        /\ r = [open |-> r.open, list |-> r.list, tabs |-> r.tabs, panes |-> r.panes, spawned |-> r.spawned]
    BY <1>1 DEF Registries
  <2>2. x = [r EXCEPT !.spawned = Append(r.spawned, e)]
    BY DEF Push, e
  <2> HIDE DEF x
  <2> QED  BY <2>1, <2>2
<1>3. e \in Tasks /\ Grounded(e, x, gone, ids)
  <2>1. 0 \in Ids /\ "empty" \in Kinds
    BY IdsFinite DEF Kinds
  <2>2. e \in Tasks /\ e.kind = "empty"
    BY <2>1, TaskTyped
  <2> HIDE DEF e, x
  <2> QED  BY <1>2, <2>2 DEF Grounded
<1> HIDE DEF x, e
<1>4. x.spawned \in Seq(Tasks) /\ \A i \in DOMAIN x.spawned : Grounded(x.spawned[i], x, gone, ids)
  <2>1. \A i \in DOMAIN r.spawned : Grounded(r.spawned[i], x, gone, ids)
    BY <1>2 DEF Fine, Grounded
  <2>2. /\ Append(r.spawned, e) \in Seq(Tasks)
        /\ \A i \in DOMAIN Append(r.spawned, e) :
              Append(r.spawned, e)[i] = e \/ (i \in DOMAIN r.spawned /\ Append(r.spawned, e)[i] = r.spawned[i])
    BY <1>1, <1>3
  <2> QED  BY <1>2, <1>3, <2>1, <2>2
<1>5. x \in Registries
  BY <1>1, <1>2, <1>4 DEF Registries
<1>6. Once(x) /\ Listed(x) = Listed(r)
  BY <1>1, <1>2 DEF Once, Listed
<1> QED  BY <1>1, <1>2, <1>4, <1>5, <1>6 DEF Fine, Thins, Keeps, x

LEMMA PruneFacts ==
    ASSUME NEW r, NEW gone, NEW ids, NEW holding, Fine(r, gone, ids)
    PROVE  LET x == Prune(r, gone, holding)
           IN Fine(x, gone, ids) /\ Thins(r, x, gone) /\ Keeps(r, x)
<1> DEFINE y == Pruned(r, gone)
<1>1. Fine(y, gone, ids) /\ Thins(r, y, gone) /\ Keeps(r, y)
  BY PrunedFacts
<1>2. Thins(r, r, gone) /\ Keeps(r, r)
  BY DEF Thins, Keeps
<1>3. Prune(r, gone, holding) \in {r, y, Push(y, "empty")} /\
      (Prune(r, gone, holding) = r \/ Prune(r, gone, holding) = y
        \/ (Prune(r, gone, holding) = Push(y, "empty") /\ y.panes = {}))
  BY DEF Prune, IsEmpty
<1> HIDE DEF y
<1>4. CASE Prune(r, gone, holding) = Push(y, "empty") /\ y.panes = {}
  <2>1. Fine(Push(y, "empty"), gone, ids) /\ Thins(y, Push(y, "empty"), gone) /\ Keeps(y, Push(y, "empty"))
    BY <1>1, <1>4, PushEmpty
  <2> QED  BY <1>1, <1>4, <2>1, ThinsTrans, KeepsTrans
<1> QED  BY <1>1, <1>2, <1>3, <1>4

(* Mux::remove_pane of a pane takes at most that one and ended ones.       *)
LEMMA RemovePaneFacts ==
    ASSUME NEW r, NEW gone, NEW ids, NEW holding, NEW p, Fine(r, gone, ids)
    PROVE  LET x == RemovePane(r, p, gone, holding)
           IN Fine(x, gone, ids) /\ Thins(r, x, gone \cup {p}) /\ Keeps(r, x)
<1> DEFINE y == [r EXCEPT !.panes = r.panes \ {p}]
<1>1. r \in Registries /\ Once(r) /\ r.tabs \subseteq ids
  BY DEF Fine
<1>2. RemovePane(r, p, gone, holding) = Prune(y, gone, holding)
  BY DEF RemovePane
<1>3. /\ y.open = r.open /\ y.list = r.list /\ y.tabs = r.tabs /\ y.panes = r.panes \ {p}
      /\ y.spawned = r.spawned
      /\ y = [open |-> y.open, list |-> y.list, tabs |-> y.tabs, panes |-> y.panes, spawned |-> y.spawned]
  <2>1. /\ DOMAIN r = {"open", "list", "tabs", "panes", "spawned"}
        /\ r = [open |-> r.open, list |-> r.list, tabs |-> r.tabs, panes |-> r.panes, spawned |-> r.spawned]
    BY <1>1 DEF Registries
  <2>2. y = [r EXCEPT !.panes = r.panes \ {p}]
    OBVIOUS
  <2> HIDE DEF y
  <2> QED  BY <2>1, <2>2
<1> HIDE DEF y
<1>4. y \in Registries /\ Once(y) /\ Listed(y) = Listed(r)
  BY <1>1, <1>3 DEF Registries, Once, Listed
<1>5. Fine(y, gone, ids)
  BY <1>1, <1>3, <1>4 DEF Fine, Grounded
<1>6. LET x == Prune(y, gone, holding) IN Fine(x, gone, ids) /\ Thins(y, x, gone) /\ Keeps(y, x)
  BY <1>5, PruneFacts
<1> QED  BY <1>2, <1>3, <1>4, <1>6 DEF Thins, Keeps

(* A window the mux kills takes its panes along, and ended ones.           *)
LEMMA KillWindowInFacts ==
    ASSUME NEW r, NEW gone, NEW ids, NEW holding, NEW w \in Ids, Fine(r, gone, ids)
    PROVE  LET x == KillWindowIn(r, w, gone, holding)
           IN /\ Fine(x, gone, ids) /\ Thins(r, x, gone \cup Range(r.list[w])) /\ Keeps(r, x)
              /\ w \notin x.open
<1> DEFINE ws == {w} \cap r.open
           lost == UNION {Range(r.list[v]) : v \in ws}
           y == RemoveWindows(r, ws)
<1>1. /\ Fine(y, gone, ids) /\ y.open = r.open \ ws /\ y.tabs = r.tabs \ lost
      /\ y.panes = r.panes \ lost /\ Keeps(r, y)
  BY RemoveWindowsFacts
<1>2. lost \subseteq Range(r.list[w]) /\ w \notin y.open
  BY <1>1
<1>3. KillWindowIn(r, w, gone, holding) = Prune(y, gone, holding)
  BY DEF KillWindowIn
<1> HIDE DEF y, lost
<1>4. LET x == Prune(y, gone, holding) IN Fine(x, gone, ids) /\ Thins(y, x, gone) /\ Keeps(y, x)
  BY <1>1, PruneFacts
<1>5. Keeps(r, Prune(y, gone, holding))
  BY <1>1, <1>4, KeepsTrans
<1> QED  BY <1>1, <1>2, <1>3, <1>4, <1>5 DEF Thins

(* Moving the tabs of a window to another leaves each in one window, and   *)
(* in one at all if that other is still in the mux.                        *)
LEMMA MoveTabsFacts ==
    ASSUME NEW r, NEW gone, NEW ids, NEW first \in Ids, NEW w \in Ids, w # first, Fine(r, gone, ids)
    PROVE  LET x == MoveTabs(r, first, w)
           IN /\ Fine(x, gone, ids) /\ x.open = r.open /\ x.tabs = r.tabs /\ x.panes = r.panes
              /\ x.list[w] = <<>>
              /\ first \in r.open => Keeps(r, x)
<1> DEFINE x == MoveTabs(r, first, w)
           joined == IF first \in r.open THEN r.list[first] \o r.list[w] ELSE r.list[first]
           list == [r.list EXCEPT ![first] = joined, ![w] = <<>>]
<1>1. r \in Registries /\ Once(r) /\ r.tabs \subseteq ids /\ r.list \in [Ids -> Seq(Ids)]
  BY DEF Fine, Registries
<1>2. /\ x.open = r.open /\ x.list = list /\ x.tabs = r.tabs /\ x.panes = r.panes
      /\ x.spawned = r.spawned
      /\ x = [open |-> x.open, list |-> x.list, tabs |-> x.tabs, panes |-> x.panes, spawned |-> x.spawned]
  <2> HIDE DEF list
  <2>1. /\ DOMAIN r = {"open", "list", "tabs", "panes", "spawned"}
        /\ r = [open |-> r.open, list |-> r.list, tabs |-> r.tabs, panes |-> r.panes, spawned |-> r.spawned]
    BY <1>1 DEF Registries
  <2>2. x = [r EXCEPT !.list = list]
    <3>1. x = [r EXCEPT !.list = [r.list EXCEPT
                  ![first] = IF first \in r.open THEN r.list[first] \o r.list[w] ELSE r.list[first],
                  ![w] = <<>>]]
      BY <1>1 DEF MoveTabs
    <3>2. [r.list EXCEPT
             ![first] = IF first \in r.open THEN r.list[first] \o r.list[w] ELSE r.list[first],
             ![w] = <<>>] = list
      BY DEF list
    <3> QED  BY <3>1, <3>2, Zenon
  <2> HIDE DEF x
  <2> QED  BY <2>1, <2>2
<1>3. /\ r.list[first] \in Seq(Ids) /\ r.list[w] \in Seq(Ids)
      /\ IsInjective(r.list[first]) /\ IsInjective(r.list[w])
      /\ Range(r.list[first]) \cap Range(r.list[w]) = {}
  BY <1>1 DEF Once
<1>4. /\ joined \in Seq(Ids) /\ IsInjective(joined)
      /\ \A t : t \in Range(joined) => t \in Range(r.list[first]) \/ t \in Range(r.list[w])
      /\ first \in r.open =>
            \A t : t \in Range(joined) <=> t \in Range(r.list[first]) \/ t \in Range(r.list[w])
      /\ (first \notin r.open => joined = <<>>)
  <2>1. first \notin r.open => r.list[first] = <<>>
    BY <1>1 DEF Once
  <2>2. /\ r.list[first] \o r.list[w] \in Seq(Ids)
        /\ IsInjective(r.list[first] \o r.list[w])
        /\ \A t : t \in Range(r.list[first] \o r.list[w])
                    <=> t \in Range(r.list[first]) \/ t \in Range(r.list[w])
    BY <1>3, ConcatFacts
  <2> QED  BY <1>3, <2>1, <2>2
<1> HIDE DEF joined
<1>5. /\ list \in [Ids -> Seq(Ids)] /\ list[first] = joined /\ list[w] = <<>>
      /\ \A v \in Ids : v # first /\ v # w => list[v] = r.list[v]
  <2>1. <<>> \in Seq(Ids)
    OBVIOUS
  <2> QED  BY <1>1, <1>4, <2>1
<1> HIDE DEF x, list
<1>6. x \in Registries
  BY <1>1, <1>2, <1>5 DEF Registries
<1>7. Range(<<>>) = {} /\ IsInjective(<<>>)
  BY DEF Range, IsInjective
<1>8. Once(x)
  <2>1. ASSUME NEW v \in Ids
        PROVE  /\ IsInjective(x.list[v]) /\ Range(x.list[v]) \subseteq x.tabs
               /\ (v \notin x.open => x.list[v] = <<>>)
    <3>1. \A u \in Ids : /\ IsInjective(r.list[u]) /\ Range(r.list[u]) \subseteq r.tabs
                         /\ (u \notin r.open => r.list[u] = <<>>)
      BY <1>1 DEF Once
    <3>2. CASE v = w
      BY <1>2, <1>5, <1>7, <3>2
    <3>3. CASE v = first
      BY <1>2, <1>4, <1>5, <3>1, <3>3
    <3>4. CASE v # first /\ v # w
      <4>1. x.list[v] = r.list[v]
        BY <1>2, <1>5, <3>4
      <4> QED  BY <1>2, <3>1, <4>1
    <3> QED  BY <3>2, <3>3, <3>4
  <2>2. ASSUME NEW u \in Ids, NEW v \in Ids, u # v
        PROVE  Range(x.list[u]) \cap Range(x.list[v]) = {}
    <3>1. \A a, b \in Ids : a # b => Range(r.list[a]) \cap Range(r.list[b]) = {}
      BY <1>1 DEF Once
    <3>2. CASE u = w \/ v = w
      BY <1>2, <1>5, <1>7, <3>2
    <3>3. ASSUME NEW a \in Ids, a # first, a # w
          PROVE  Range(x.list[a]) = Range(r.list[a]) /\ Range(x.list[a]) \cap Range(x.list[first]) = {}
      <4>1. x.list[a] = r.list[a] /\ x.list[first] = joined
        BY <1>2, <1>5, <3>3
      <4> QED  BY <1>4, <3>1, <3>3, <4>1
    <3>4. CASE u # w /\ v # w
      BY <2>2, <3>1, <3>3, <3>4
    <3> QED  BY <3>2, <3>4
  <2> QED  BY <2>1, <2>2 DEF Once
<1>9. Fine(x, gone, ids)
  BY <1>1, <1>2, <1>6, <1>8 DEF Fine, Grounded
<1>10. ASSUME first \in r.open PROVE Keeps(r, x)
  <2>1. \A t : t \in Listed(x) <=> \E v \in Ids : t \in Range(x.list[v])
    BY <1>6, <1>8, ListedIn
  <2>2. \A t : t \in Listed(r) <=> \E v \in Ids : t \in Range(r.list[v])
    BY <1>1, ListedIn
  <2>3. \A t, v : v \in Ids /\ t \in Range(r.list[v]) => \E u \in Ids : t \in Range(x.list[u])
    <3>1. SUFFICES ASSUME NEW t, NEW v \in Ids, t \in Range(r.list[v])
                   PROVE  \E u \in Ids : t \in Range(x.list[u])
      OBVIOUS
    <3>2. CASE v = first \/ v = w
      <4>1. t \in Range(x.list[first])
        BY <1>2, <1>4, <1>5, <1>10, <3>1, <3>2
      <4> QED  BY <4>1
    <3>3. CASE v # first /\ v # w
      <4>1. x.list[v] = r.list[v]
        BY <1>2, <1>5, <3>3
      <4> QED  BY <3>1, <4>1
    <3> QED  BY <3>2, <3>3
  <2> QED  BY <1>2, <2>1, <2>2, <2>3 DEF Keeps
<1>11. x.list[w] = <<>>
  BY <1>2, <1>5
<1> QED  BY <1>2, <1>9, <1>10, <1>11 DEF x

(* One window less: its tabs move to the first and it is killed.           *)
LEMMA MovedFacts ==
    ASSUME NEW r, NEW x, NEW gone, NEW ids, NEW holding, NEW first \in Ids, NEW w \in Ids, w # first,
           Fine(x, gone, ids), Thins(r, x, gone), first \in x.open => Keeps(r, x)
    PROVE  LET y == KillWindowIn(MoveTabs(x, first, w), w, gone, holding)
           IN Fine(y, gone, ids) /\ Thins(r, y, gone) /\ (first \in y.open => Keeps(r, y))
<1> DEFINE z == MoveTabs(x, first, w)
           y == KillWindowIn(z, w, gone, holding)
<1>1. /\ Fine(z, gone, ids) /\ z.open = x.open /\ z.tabs = x.tabs /\ z.panes = x.panes
      /\ z.list[w] = <<>>
      /\ first \in x.open => Keeps(x, z)
  BY MoveTabsFacts
<1> HIDE DEF z
<1>2. Fine(y, gone, ids) /\ Thins(z, y, gone \cup Range(z.list[w])) /\ Keeps(z, y)
  BY <1>1, KillWindowInFacts
<1> HIDE DEF y
<1>3. gone \cup Range(z.list[w]) = gone
  BY <1>1 DEF Range
<1>4. Thins(r, y, gone)
  <2>1. Thins(z, y, gone)
    BY <1>2, <1>3
  <2>2. Thins(r, z, gone)
    BY <1>1 DEF Thins
  <2> QED  BY <2>1, <2>2, ThinsTrans
<1>5. ASSUME first \in y.open PROVE Keeps(r, y)
  <2>1. first \in x.open
    BY <1>1, <1>2, <1>5 DEF Thins
  <2> QED  BY <1>1, <1>2, <2>1, KeepsTrans
<1> QED  BY <1>2, <1>4, <1>5 DEF y, z

(* consolidate_workspace_windows takes ended panes only, and a tab out of  *)
(* its window only when the first window has gone under way.               *)
LEMMA ConsolidateFacts ==
    ASSUME NEW r, NEW gone, NEW ids, NEW holding, Fine(r, gone, ids)
    PROVE  LET x == Consolidate(r, gone, holding)
           IN /\ Fine(x, gone, ids) /\ Thins(r, x, gone)
              /\ Keeps(r, x) \/ (r.open # {} /\ Primary(r) \notin x.open)
<1> DEFINE x == Consolidate(r, gone, holding)
           first == Primary(r)
           Moved(y, w) == KillWindowIn(MoveTabs(y, first, w), w, gone, holding)
           others == r.open \ {first}
           T == {y \in Registries : /\ Fine(y, gone, ids) /\ Thins(r, y, gone)
                                    /\ first \in y.open => Keeps(r, y)}
           Step(f) == [w \in Ids |->
                         LET y == IF w = 0 THEN r ELSE f[w - 1]
                         IN IF w \in others THEN Moved(y, w) ELSE y]
           upto == CHOOSE f : f = Step(f)
<1>0. r \in Registries /\ r.open \subseteq Ids
  BY DEF Fine, Registries
<1>1. Thins(r, r, gone) /\ Keeps(r, r)
  BY DEF Thins, Keeps
<1>2. CASE Cardinality(r.open) <= 1
  <2>1. x = r
    BY <1>2 DEF Consolidate
  <2> QED  BY <1>1, <2>1
<1>3. CASE ~(Cardinality(r.open) <= 1)
  <2>1. r.open # {}
    BY <1>3, FS_EmptySet
  <2>2. first \in r.open /\ \A v \in r.open : first <= v
    <3>1. r.open \in SUBSET Nat
      BY <1>0, IdsFinite
    <3>2. \E v \in r.open : \A u \in r.open : v <= u
      BY <2>1, <3>1, LeastOf
    <3> QED  BY <3>2 DEF Primary
  <2>3. x = upto[Spawns]
    BY <1>3 DEF Consolidate
  <2> HIDE DEF first, x
  <2>4. first \in Ids /\ 0 \notin others
    BY <1>0, <2>2, IdsFinite
  <2>5. ASSUME NEW y \in T, NEW w \in others PROVE Moved(y, w) \in T
    <3>1. w \in Ids /\ w # first
      BY <1>0
    <3> DEFINE z == Moved(y, w)
    <3>2. Fine(z, gone, ids) /\ Thins(r, z, gone) /\ (first \in z.open => Keeps(r, z))
      BY <2>4, <3>1, MovedFacts
    <3> HIDE DEF z
    <3>3. z \in Registries
      BY <3>2 DEF Fine
    <3> QED  BY <3>2, <3>3 DEF z
  <2>6. r \in T
    BY <1>0, <1>1
  <2> HIDE DEF T, Moved, others
  <2>7. upto = Step(upto)
    <3> DEFINE F == [i \in 1 .. Spawns |-> [y \in T |-> IF i \in others THEN Moved(y, i) ELSE y]]
    <3>1. PICK g : IsRun(g, Spawns, T, r, F)
      <4>1. F \in [1 .. Spawns -> [T -> T]]
        BY <2>5
      <4>2. IsStep(F, Spawns, T)
        BY <4>1 DEF IsStep
      <4> HIDE DEF F
      <4> QED  BY <2>6, <4>2, IdsFinite, Recursion
    <3>2. /\ Ids = 0 .. Spawns /\ 0 \in Ids
          /\ \A i \in Ids : i = 0 \/ (i # 0 /\ i \in 1 .. Spawns)
          /\ \A i \in 1 .. Spawns : i - 1 \in 0 .. Spawns
      BY IdsFinite
    <3>3. ASSUME NEW i \in 1 .. Spawns
          PROVE  g[i] = IF i \in others THEN Moved(g[i - 1], i) ELSE g[i - 1]
      <4>1. g[i - 1] \in T
        BY <3>1, <3>2 DEF IsRun
      <4> QED  BY <3>1, <4>1 DEF IsRun
    <3>4. g = Step(g)
      <4> HIDE DEF F
      <4>1. \A i \in Ids : g[i] = Step(g)[i]
        BY <2>4, <3>1, <3>2, <3>3 DEF IsRun
      <4> QED  BY <3>1, <3>2, <4>1 DEF IsRun
    <3> HIDE DEF Step
    <3> QED  BY <3>4
  <2>8. /\ upto[0] = r
        /\ \A i \in 1 .. Spawns : upto[i] = IF i \in others THEN Moved(upto[i - 1], i) ELSE upto[i - 1]
    <3>1. 0 \in Ids /\ \A i \in 1 .. Spawns : i \in Ids /\ i # 0
      BY IdsFinite
    <3>2. \A i \in Ids : upto[i] = Step(upto)[i]
      BY <2>7
    <3> HIDE DEF upto
    <3> QED  BY <2>4, <3>1, <3>2
  <2> HIDE DEF upto, Step
  <2> DEFINE Good == {i \in 0 .. Spawns : upto[i] \in T}
  <2>9. Spawns \in Good
    <3>1. 0 \in Good
      BY <2>6, <2>8, IdsFinite
    <3>2. \A i \in 1 .. Spawns : i - 1 \in Good => i \in Good
      <4>1. \A i \in 1 .. Spawns : i \in 0 .. Spawns
        BY IdsFinite
      <4> QED  BY <2>5, <2>8, <4>1
    <3>3. Spawns \in Nat /\ Spawns \in 0 .. Spawns
      BY IdsFinite
    <3> HIDE DEF Good
    <3> QED  BY <3>1, <3>2, <3>3, UpTo
  <2>10. x \in T
    BY <2>3, <2>9
  <2> QED  BY <2>1, <2>10 DEF T, x, first
<1> QED  BY <1>2, <1>3
-----------------------------------------------------------------------------
(* What holds of the queue between two tasks.                              *)

(* A spawn queued is the only one of its number, one of those asked for; a *)
(* pane that is to be removed is known and has ended or left already.      *)
WorkOK(q, r, ended, ids, asked) ==
    /\ q \in Seq(Tasks)
    /\ \A i \in DOMAIN q : q[i].kind = "spawn" => q[i].id \in asked
    /\ \A i, j \in DOMAIN q :
          i # j /\ q[i].kind = "spawn" /\ q[j].kind = "spawn" => q[i].id # q[j].id
    /\ \A i \in DOMAIN q : q[i].kind = "remove" =>
          q[i].id \in ids /\ (q[i].id \in ended \/ q[i].id \notin r.panes)

(* Where the mux was told empty it still is but for ended panes, or a      *)
(* prune is queued behind.                                                 *)
EmptiesOK(q, r, gone) ==
    \A i \in DOMAIN q : q[i].kind = "empty" =>
        r.panes \subseteq gone \/ \E j \in DOMAIN q : j > i /\ q[j].kind = "prune"

LEMMA WorkConcat ==
    ASSUME NEW p, NEW q, NEW r, NEW ended, NEW ids, NEW A, NEW B, A \cap B = {},
           WorkOK(p, r, ended, ids, A), WorkOK(q, r, ended, ids, B)
    PROVE  WorkOK(p \o q, r, ended, ids, A \cup B)
<1> DEFINE k == Len(p)
           l == Len(q)
           s == p \o q
<1>0. p \in Seq(Tasks) /\ q \in Seq(Tasks)
  BY DEF WorkOK
<1>1. /\ s \in Seq(Tasks) /\ k \in Nat /\ l \in Nat
      /\ DOMAIN p = 1 .. k /\ DOMAIN q = 1 .. l /\ DOMAIN s = 1 .. k + l
      /\ \A i \in 1 .. k + l : s[i] = IF i <= k THEN p[i] ELSE q[i - k]
  BY <1>0, ConcatProperties, LenProperties
<1> HIDE DEF k, l, s
<1>2. \A i \in 1 .. k + l : (i <= k => i \in 1 .. k) /\ (~(i <= k) => i - k \in 1 .. l)
  BY <1>1
<1>3. ASSUME NEW i \in DOMAIN s, s[i].kind = "spawn"
      PROVE  s[i].id \in (IF i <= k THEN A ELSE B)
  BY <1>1, <1>2, <1>3 DEF WorkOK
<1>4. ASSUME NEW i \in DOMAIN s, NEW j \in DOMAIN s, i # j, s[i].kind = "spawn", s[j].kind = "spawn"
      PROVE  s[i].id # s[j].id
  <2>1. CASE i <= k /\ j <= k
    BY <1>1, <1>2, <1>4, <2>1 DEF WorkOK
  <2>2. CASE ~(i <= k) /\ ~(j <= k)
    <3>1. i - k # j - k
      BY <1>1, <1>4
    <3> QED  BY <1>1, <1>2, <1>4, <2>2, <3>1 DEF WorkOK
  <2>3. CASE (i <= k) # (j <= k)
    BY <1>3, <1>4, <2>3
  <2> QED  BY <2>1, <2>2, <2>3
<1>5. ASSUME NEW i \in DOMAIN s, s[i].kind = "remove"
      PROVE  s[i].id \in ids /\ (s[i].id \in ended \/ s[i].id \notin r.panes)
  BY <1>1, <1>2, <1>5 DEF WorkOK
<1>6. \A i \in DOMAIN s : s[i].kind = "spawn" => s[i].id \in A \cup B
  BY <1>3
<1>7. WorkOK(s, r, ended, ids, A \cup B)
  BY <1>1, <1>4, <1>5, <1>6 DEF WorkOK
<1> QED  BY <1>7 DEF s

LEMMA EmptiesConcat ==
    ASSUME NEW p \in Seq(Tasks), NEW q \in Seq(Tasks), NEW r, NEW gone,
           EmptiesOK(p, r, gone), EmptiesOK(q, r, gone)
    PROVE  EmptiesOK(p \o q, r, gone)
<1> DEFINE k == Len(p)
           l == Len(q)
           s == p \o q
<1>1. /\ s \in Seq(Tasks) /\ k \in Nat /\ l \in Nat
      /\ DOMAIN p = 1 .. k /\ DOMAIN q = 1 .. l /\ DOMAIN s = 1 .. k + l
      /\ \A i \in 1 .. k + l : s[i] = IF i <= k THEN p[i] ELSE q[i - k]
  BY ConcatProperties, LenProperties
<1> HIDE DEF k, l, s
<1>2. /\ \A i \in 1 .. k + l : (i <= k => i \in 1 .. k) /\ (~(i <= k) => i - k \in 1 .. l)
      /\ \A j \in 1 .. k : j \in 1 .. k + l /\ j <= k
      /\ \A j \in 1 .. l : k + j \in 1 .. k + l /\ ~(k + j <= k) /\ (k + j) - k = j
  BY <1>1
<1>3. ASSUME NEW i \in DOMAIN s, s[i].kind = "empty", ~(r.panes \subseteq gone)
      PROVE  \E j \in DOMAIN s : j > i /\ s[j].kind = "prune"
  <2>1. CASE i <= k
    <3>1. PICK j \in 1 .. k : j > i /\ p[j].kind = "prune"
      BY <1>1, <1>2, <1>3, <2>1 DEF EmptiesOK
    <3> QED  BY <1>1, <1>2, <3>1
  <2>2. CASE ~(i <= k)
    <3>1. PICK j \in 1 .. l : j > i - k /\ q[j].kind = "prune"
      BY <1>1, <1>2, <1>3, <2>2 DEF EmptiesOK
    <3>2. k + j > i
      BY <1>1, <3>1
    <3>3. s[k + j] = q[j]
      BY <1>1, <1>2
    <3> QED  BY <1>1, <1>2, <3>1, <3>2, <3>3
  <2> QED  BY <2>1, <2>2
<1> QED  BY <1>3 DEF EmptiesOK, s

(* A queue that ends in a prune.                                           *)
LEMMA EndsInPrune ==
    ASSUME NEW p \in Seq(Tasks), NEW r, NEW gone
    PROVE  EmptiesOK(Append(p, Task("prune", 0)), r, gone)
<1> DEFINE s == Append(p, Task("prune", 0))
           n == Len(p) + 1
<1>1. /\ n \in DOMAIN s /\ s[n].kind = "prune"
      /\ \A i \in DOMAIN s : i = n \/ n > i
  BY DEF Task
<1> HIDE DEF n, s
<1>2. \A i \in DOMAIN s : s[i].kind = "empty" => i # n
  BY <1>1
<1> QED  BY <1>1, <1>2 DEF EmptiesOK, s

LEMMA EmptyQueue ==
    ASSUME NEW r, NEW ended, NEW ids, NEW gone, NEW asked
    PROVE  WorkOK(<<>>, r, ended, ids, asked) /\ EmptiesOK(<<>>, r, gone)
  BY DEF WorkOK, EmptiesOK

LEMMA OneTask ==
    ASSUME NEW e \in Tasks, NEW r, NEW ended, NEW ids, NEW gone, NEW asked,
           e.kind = "spawn" => e.id \in asked,
           e.kind = "remove" => e.id \in ids /\ (e.id \in ended \/ e.id \notin r.panes),
           e.kind # "empty"
    PROVE  WorkOK(<<e>>, r, ended, ids, asked) /\ EmptiesOK(<<e>>, r, gone)
<1>1. <<e>> \in Seq(Tasks) /\ DOMAIN <<e>> = {1} /\ <<e>>[1] = e
  OBVIOUS
<1> QED  BY <1>1 DEF WorkOK, EmptiesOK

LEMMA WorkLater ==
    ASSUME NEW q, NEW r, NEW x, NEW ended, NEW more, NEW ids, NEW others, NEW A, NEW B,
           WorkOK(q, r, ended, ids, A), A \subseteq B, ended \subseteq more, ids \subseteq others,
           x.panes \cap ids \subseteq r.panes
    PROVE  WorkOK(q, x, more, others, B)
  BY DEF WorkOK

LEMMA EmptiesLater ==
    ASSUME NEW q, NEW r, NEW x, NEW gone, NEW more,
           EmptiesOK(q, r, gone), gone \subseteq more, x.panes \subseteq r.panes
    PROVE  EmptiesOK(q, x, more)
  BY DEF EmptiesOK

(* The queue behind its first task.                                        *)
LEMMA TailFacts ==
    ASSUME NEW q, NEW r, NEW ended, NEW ids, NEW gone, NEW A,
           WorkOK(q, r, ended, ids, A), EmptiesOK(q, r, gone), Len(q) > 0
    PROVE  /\ Head(q) \in Tasks
           /\ WorkOK(Tail(q), r, ended, ids, A) /\ EmptiesOK(Tail(q), r, gone)
           /\ Head(q).kind = "spawn" =>
                 Head(q).id \in A /\ WorkOK(Tail(q), r, ended, ids, A \ {Head(q).id})
           /\ Head(q).kind = "remove" =>
                 Head(q).id \in ids /\ (Head(q).id \in ended \/ Head(q).id \notin r.panes)
           /\ Head(q).kind = "empty" =>
                 r.panes \subseteq gone \/ \E j \in DOMAIN Tail(q) : Tail(q)[j].kind = "prune"
<1> DEFINE t == Tail(q)
           n == Len(q)
<1>0. q \in Seq(Tasks)
  BY DEF WorkOK
<1>1. /\ n \in Nat /\ n >= 1 /\ DOMAIN q = 1 .. n /\ Head(q) = q[1] /\ t \in Seq(Tasks)
      /\ DOMAIN t = 1 .. n - 1 /\ \A i \in 1 .. n - 1 : t[i] = q[i + 1]
  BY <1>0
<1>2. \A i \in 1 .. n : q[i] \in Tasks
  BY <1>0
<1> HIDE DEF t, n
<1>3. /\ 1 \in 1 .. n
      /\ \A i \in 1 .. n - 1 : i \in Int /\ i + 1 \in 1 .. n /\ i + 1 # 1
      /\ \A i, j \in 1 .. n - 1 : i # j => i + 1 # j + 1
      /\ \A i \in 1 .. n : i = 1 \/ (i - 1 \in 1 .. n - 1 /\ (i - 1) + 1 = i)
      /\ \A i \in 1 .. n, j \in 1 .. n - 1 : i > j + 1 => i - 1 > j /\ i - 1 \in 1 .. n - 1
  BY <1>1
<1>4. /\ \A i \in 1 .. n - 1 : t[i].kind = "spawn" =>
            t[i].id \in A /\ (Head(q).kind = "spawn" => t[i].id # Head(q).id)
      /\ \A i, j \in 1 .. n - 1 :
            i # j /\ t[i].kind = "spawn" /\ t[j].kind = "spawn" => t[i].id # t[j].id
      /\ \A i \in 1 .. n - 1 : t[i].kind = "remove" =>
            t[i].id \in ids /\ (t[i].id \in ended \/ t[i].id \notin r.panes)
  <2>1. ASSUME NEW i \in 1 .. n - 1, t[i].kind = "spawn"
        PROVE  t[i].id \in A /\ (Head(q).kind = "spawn" => t[i].id # Head(q).id)
    <3>1. i + 1 \in DOMAIN q /\ 1 \in DOMAIN q /\ i + 1 # 1
      BY <1>1, <1>3, <2>1
    <3>2. q[i + 1].kind = "spawn" /\ t[i] = q[i + 1] /\ Head(q) = q[1]
      BY <1>1, <2>1
    <3> QED  BY <3>1, <3>2 DEF WorkOK
  <2>2. ASSUME NEW i \in 1 .. n - 1, NEW j \in 1 .. n - 1,
               i # j, t[i].kind = "spawn", t[j].kind = "spawn"
        PROVE  t[i].id # t[j].id
    <3>1. i + 1 \in DOMAIN q /\ j + 1 \in DOMAIN q /\ i + 1 # j + 1
      BY <1>1, <1>3, <2>2
    <3>2. q[i + 1].kind = "spawn" /\ q[j + 1].kind = "spawn" /\ t[i] = q[i + 1] /\ t[j] = q[j + 1]
      BY <1>1, <2>2
    <3> QED  BY <3>1, <3>2 DEF WorkOK
  <2>3. ASSUME NEW i \in 1 .. n - 1, t[i].kind = "remove"
        PROVE  t[i].id \in ids /\ (t[i].id \in ended \/ t[i].id \notin r.panes)
    BY <1>1, <1>3, <2>3, SMTT(30) DEF WorkOK
  <2> QED  BY <2>1, <2>2, <2>3
<1>5. WorkOK(t, r, ended, ids, A)
  BY <1>1, <1>4 DEF WorkOK
<1>6. Head(q).kind = "spawn" => Head(q).id \in A /\ WorkOK(t, r, ended, ids, A \ {Head(q).id})
  <2>1. Head(q).kind = "spawn" => Head(q).id \in A
    BY <1>1, <1>3 DEF WorkOK
  <2> QED  BY <1>1, <1>4, <2>1 DEF WorkOK
<1>7. EmptiesOK(t, r, gone)
  <2>1. SUFFICES ASSUME NEW i \in 1 .. n - 1, t[i].kind = "empty", ~(r.panes \subseteq gone)
                 PROVE  \E j \in 1 .. n - 1 : j > i /\ t[j].kind = "prune"
    BY <1>1 DEF EmptiesOK
  <2>2. PICK j \in 1 .. n : j > i + 1 /\ q[j].kind = "prune"
    BY <1>1, <1>3, <2>1 DEF EmptiesOK
  <2>3. j - 1 \in 1 .. n - 1 /\ j - 1 > i /\ (j - 1) + 1 = j
    BY <1>3, <2>2
  <2> QED  BY <1>1, <2>2, <2>3
<1>8. Head(q).kind = "empty" =>
        r.panes \subseteq gone \/ \E j \in DOMAIN t : t[j].kind = "prune"
  <2>1. SUFFICES ASSUME q[1].kind = "empty", ~(r.panes \subseteq gone)
                 PROVE  \E j \in 1 .. n - 1 : t[j].kind = "prune"
    BY <1>1
  <2>2. PICK j \in 1 .. n : j > 1 /\ q[j].kind = "prune"
    BY <1>1, <1>3, <2>1 DEF EmptiesOK
  <2>3. j - 1 \in 1 .. n - 1 /\ (j - 1) + 1 = j
    BY <1>3, <2>2
  <2> QED  BY <1>1, <2>2, <2>3
<1>9. Head(q).kind = "remove" =>
        Head(q).id \in ids /\ (Head(q).id \in ended \/ Head(q).id \notin r.panes)
  BY <1>1, <1>3 DEF WorkOK
<1> QED  BY <1>1, <1>2, <1>3, <1>5, <1>6, <1>7, <1>8, <1>9 DEF t
-----------------------------------------------------------------------------
(* The inductive invariant.                                                *)

Begun == {p \in Ids : Started(p)}
Asked == {s \in Spawners : phase[s] = "asked"}

(* Between two tasks: the windows and tabs agree, all that the mux knows   *)
(* has been spawned, and the tasks queued make sense of it.                *)
Calm ==
    /\ m \in Registries /\ m.spawned = <<>> /\ Once(m)
    /\ m.tabs \cup m.panes \cup dead \cup eof \subseteq Begun
    /\ WorkOK(queue, m, dead \cup eof, Begun, Asked)
    /\ EmptiesOK(queue, m, dead)

IInv == TypeOK /\ Calm

(* The registry between two tasks is as every handler leaves one.          *)
LEMMA CalmIsFine ==
    ASSUME IInv
    PROVE  Fine(m, dead, Begun)
<1>1. DOMAIN m.spawned = {} /\ m.tabs \subseteq Begun /\ m \in Registries /\ Once(m)
  BY DEF IInv, Calm
<1> QED  BY <1>1 DEF Fine

(* What the main thread leaves, and the tasks the handler has spawned.     *)
LEMMA LeaveFacts ==
    ASSUME NEW r, NEW gone, NEW ids, Fine(r, gone, ids), NEW rest, NEW more, Leave(r, rest, more)
    PROVE  /\ m' \in Registries /\ m'.spawned = <<>> /\ Once(m') /\ m'.tabs \subseteq ids
           /\ m'.open = r.open /\ m'.list = r.list /\ m'.tabs = r.tabs /\ m'.panes = r.panes
           /\ Listed(m') = Listed(r)
           /\ queue' = rest \o r.spawned \o more
<1>1. r \in Registries /\ Once(r) /\ r.tabs \subseteq ids
  BY DEF Fine
<1>2. m' = [r EXCEPT !.spawned = <<>>] /\ queue' = rest \o r.spawned \o more
  BY DEF Leave
<1>3. /\ m'.open = r.open /\ m'.list = r.list /\ m'.tabs = r.tabs /\ m'.panes = r.panes
      /\ m'.spawned = <<>>
      /\ m' = [open |-> m'.open, list |-> m'.list, tabs |-> m'.tabs, panes |-> m'.panes, spawned |-> m'.spawned]
  <2>1. /\ DOMAIN r = {"open", "list", "tabs", "panes", "spawned"}
        /\ r = [open |-> r.open, list |-> r.list, tabs |-> r.tabs, panes |-> r.panes, spawned |-> r.spawned]
    BY <1>1 DEF Registries
  <2> QED  BY <1>2, <2>1
<1>4. m' \in Registries
  <2>1. <<>> \in Seq(Tasks)
    OBVIOUS
  <2> QED  BY <1>1, <1>3, <2>1 DEF Registries
<1>5. Once(m') /\ Listed(m') = Listed(r)
  BY <1>1, <1>3 DEF Once, Listed
<1> QED  BY <1>1, <1>2, <1>3, <1>4, <1>5

LEMMA SpawnedFacts ==
    ASSUME NEW r, NEW gone, NEW ids, NEW ended, Fine(r, gone, ids), gone \subseteq ended
    PROVE  WorkOK(r.spawned, r, ended, ids, {}) /\ EmptiesOK(r.spawned, r, gone)
<1>1. r.spawned \in Seq(Tasks) /\ \A i \in DOMAIN r.spawned : Grounded(r.spawned[i], r, gone, ids)
  BY DEF Fine, Registries
<1>2. \A i \in DOMAIN r.spawned :
        /\ r.spawned[i].kind # "spawn"
        /\ r.spawned[i].kind = "remove" =>
              r.spawned[i].id \in ids /\ (r.spawned[i].id \in ended \/ r.spawned[i].id \notin r.panes)
        /\ r.spawned[i].kind = "empty" => r.panes = {}
  BY <1>1 DEF Grounded
<1> QED  BY <1>1, <1>2 DEF WorkOK, EmptiesOK

(* A handler that lost only panes that have ended leaves all calm, with    *)
(* nothing spawned yet asked for twice.                                    *)
LEMMA LeavesCalm ==
    ASSUME TypeOK', NEW r, Fine(r, dead, Begun'), dead' = dead,
           r.panes \cup dead' \cup eof' \subseteq Begun',
           NEW rest, NEW more, NEW A, NEW B, A \cap B = {}, A \cup B \subseteq Asked',
           Leave(r, rest, more),
           WorkOK(rest, r, dead' \cup eof', Begun', A), WorkOK(more, r, dead' \cup eof', Begun', B),
           \/ EmptiesOK(rest, r, dead') /\ EmptiesOK(more, r, dead')
           \/ \E p \in Seq(Tasks) : rest \o r.spawned \o more = Append(p, Task("prune", 0))
    PROVE  IInv'
<1> DEFINE ended == dead' \cup eof'
           q == rest \o r.spawned \o more
<1>1. /\ m' \in Registries /\ m'.spawned = <<>> /\ Once(m') /\ m'.tabs \subseteq Begun'
      /\ m'.panes = r.panes /\ queue' = q
  BY LeaveFacts
<1>2. WorkOK(r.spawned, r, ended, Begun', {}) /\ EmptiesOK(r.spawned, r, dead')
  <2>1. Fine(r, dead', Begun') /\ dead' \subseteq ended
    OBVIOUS
  <2> HIDE DEF ended
  <2> QED  BY <2>1, SpawnedFacts
<1>3. WorkOK(rest \o r.spawned, r, ended, Begun', A)
  <2>1. WorkOK(rest \o r.spawned, r, ended, Begun', A \cup {})
    <3> HIDE DEF ended
    <3>1. A \cap {} = {} /\ WorkOK(rest, r, ended, Begun', A)
      BY DEF ended
    <3> QED  BY <1>2, <3>1, WorkConcat
  <2>2. A \cup {} = A
    OBVIOUS
  <2> QED  BY <2>1, <2>2
<1>4. WorkOK(q, r, ended, Begun', A \cup B)
  <2>1. WorkOK(more, r, ended, Begun', B)
    OBVIOUS
  <2> HIDE DEF ended
  <2> QED  BY <1>3, <2>1, WorkConcat
<1>5. WorkOK(queue', m', ended, Begun', Asked')
  <2>1. ended \subseteq ended /\ Begun' \subseteq Begun' /\ m'.panes \cap Begun' \subseteq r.panes
    BY <1>1
  <2> HIDE DEF q, ended
  <2> QED  BY <1>1, <1>4, <2>1, WorkLater
<1>6. EmptiesOK(q, r, dead')
  <2>1. CASE EmptiesOK(rest, r, dead') /\ EmptiesOK(more, r, dead')
    <3>1. rest \in Seq(Tasks) /\ r.spawned \in Seq(Tasks) /\ more \in Seq(Tasks)
          /\ rest \o r.spawned \in Seq(Tasks)
      BY <1>2, <1>3 DEF WorkOK
    <3>2. EmptiesOK(rest \o r.spawned, r, dead')
      BY <1>2, <2>1, <3>1, EmptiesConcat
    <3> QED  BY <2>1, <3>1, <3>2, EmptiesConcat
  <2>2. CASE \E p \in Seq(Tasks) : q = Append(p, Task("prune", 0))
    BY <2>2, EndsInPrune
  <2> QED  BY <2>1, <2>2
<1>7. EmptiesOK(queue', m', dead')
  BY <1>1, <1>6 DEF EmptiesOK
<1>8. m'.tabs \cup m'.panes \cup dead' \cup eof' \subseteq Begun'
  BY <1>1
<1>9. Calm'
  BY <1>1, <1>5, <1>7, <1>8 DEF Calm
<1> QED  BY <1>9 DEF IInv

LEMMA SamePhases ==
    ASSUME phase' = phase
    PROVE  Begun' = Begun /\ Asked' = Asked
  BY DEF Begun, Asked, Started

(* A task at the end of the queue.                                         *)
LEMMA Queued ==
    ASSUME IInv, TypeOK', m' = m, NEW e \in Tasks, queue' = Append(queue, e), e.kind # "empty",
           e.kind = "remove" => e.id \in Begun' /\ e.id \in dead' \cup eof',
           NEW B, Asked \cap B = {}, Asked \cup B = Asked', e.kind = "spawn" => e.id \in B,
           dead \subseteq dead', eof \subseteq eof', Begun' = Begun, dead' \cup eof' \subseteq Begun'
    PROVE  IInv'
<1> DEFINE ended == dead' \cup eof'
<1>1. /\ m \in Registries /\ m.spawned = <<>> /\ Once(m)
      /\ m.tabs \cup m.panes \cup dead \cup eof \subseteq Begun
      /\ WorkOK(queue, m, dead \cup eof, Begun, Asked)
      /\ EmptiesOK(queue, m, dead)
  BY DEF IInv, Calm
<1>2. queue \in Seq(Tasks) /\ queue' = queue \o <<e>> /\ <<e>> \in Seq(Tasks)
  <2>1. queue \in Seq(Tasks)
    BY <1>1 DEF WorkOK
  <2> QED  BY <2>1, AppendIsConcat
<1>3. WorkOK(queue, m, ended, Begun, Asked) /\ EmptiesOK(queue, m, dead')
  <2>1. /\ Asked \subseteq Asked /\ Begun \subseteq Begun /\ dead \cup eof \subseteq ended
        /\ m.panes \cap Begun \subseteq m.panes /\ m.panes \subseteq m.panes
    OBVIOUS
  <2> HIDE DEF ended
  <2> QED  BY <1>1, <2>1, WorkLater, EmptiesLater
<1>4. WorkOK(<<e>>, m, ended, Begun, B) /\ EmptiesOK(<<e>>, m, dead')
  <2>1. e.kind = "remove" => e.id \in Begun /\ (e.id \in ended \/ e.id \notin m.panes)
    OBVIOUS
  <2> HIDE DEF ended
  <2> QED  BY <2>1, OneTask
<1> HIDE DEF ended
<1>5. WorkOK(queue \o <<e>>, m, ended, Begun, Asked \cup B)
  BY <1>3, <1>4, WorkConcat
<1>6. EmptiesOK(queue \o <<e>>, m, dead')
  BY <1>2, <1>3, <1>4, EmptiesConcat
<1>7. WorkOK(queue', m', dead' \cup eof', Begun', Asked')
  BY <1>2, <1>5 DEF ended
<1>8. EmptiesOK(queue', m', dead')
  BY <1>2, <1>6
<1>9. Calm'
  BY <1>1, <1>7, <1>8 DEF Calm
<1> QED  BY <1>9 DEF IInv

LEMMA RequestSpawnStep ==
    ASSUME IInv, NEW s \in Spawners, NEW w \in Ids, RequestSpawn(s, w)
    PROVE  IInv'
<1> DEFINE e == Task("spawn", s)
<1>1. /\ phase[s] = "none" /\ phase' = [phase EXCEPT ![s] = "asked"]
      /\ target' = [target EXCEPT ![s] = w] /\ queue' = Append(queue, e)
      /\ UNCHANGED <<m, dead, eof, quit, parity>>
  BY DEF RequestSpawn
<1>2. TypeOK' /\ phase \in [Spawners -> {"none", "asked", "waiting", "done", "lost", "failed"}]
  BY <1>1 DEF IInv, TypeOK
<1>3. e \in Tasks /\ e.kind = "spawn" /\ e.id = s
  <2>1. "spawn" \in Kinds /\ s \in Ids
    BY IdsFinite DEF Kinds
  <2> QED  BY <2>1, TaskTyped
<1> HIDE DEF e
<1>4. Asked \cap {s} = {} /\ Asked \cup {s} = Asked'
  BY <1>1, <1>2 DEF Asked
<1>5. Begun' = Begun
  BY <1>1, <1>2 DEF Begun, Started
<1>6. dead \cup eof \subseteq Begun
  BY DEF IInv, Calm
<1> QED  BY <1>1, <1>2, <1>3, <1>4, <1>5, <1>6, Queued

LEMMA ChildExitsStep ==
    ASSUME IInv, NEW p \in Ids, ChildExits(p)
    PROVE  IInv'
<1> DEFINE e == Task("prune", 0)
<1>1. /\ Started(p) /\ dead' = dead \cup {p} /\ queue' = Append(queue, e)
      /\ UNCHANGED <<m, phase, target, eof, quit, parity>>
  BY DEF ChildExits
<1>2. TypeOK'
  BY <1>1 DEF IInv, TypeOK
<1>3. e \in Tasks /\ e.kind = "prune"
  <2>1. "prune" \in Kinds /\ 0 \in Ids
    BY IdsFinite DEF Kinds
  <2> QED  BY <2>1, TaskTyped
<1> HIDE DEF e
<1>4. Begun' = Begun /\ Asked' = Asked /\ Asked \cap {} = {} /\ Asked \cup {} = Asked'
  BY <1>1, SamePhases
<1>5. dead \cup eof \subseteq Begun /\ p \in Begun
  BY <1>1 DEF IInv, Calm, Begun
<1> QED  BY <1>1, <1>2, <1>3, <1>4, <1>5, Queued

LEMMA PtyEofStep ==
    ASSUME IInv, NEW p \in Ids, PtyEof(p)
    PROVE  IInv'
<1> DEFINE e == Task("remove", p)
<1>1. /\ Started(p) /\ eof' = eof \cup {p} /\ queue' = Append(queue, e)
      /\ UNCHANGED <<m, phase, target, dead, quit, parity>>
  BY DEF PtyEof
<1>2. TypeOK'
  BY <1>1 DEF IInv, TypeOK
<1>3. e \in Tasks /\ e.kind = "remove" /\ e.id = p
  <2>1. "remove" \in Kinds
    BY DEF Kinds
  <2> QED  BY <2>1, TaskTyped
<1> HIDE DEF e
<1>4. Begun' = Begun /\ Asked' = Asked /\ Asked \cap {} = {} /\ Asked \cup {} = Asked'
  BY <1>1, SamePhases
<1>5. dead \cup eof \subseteq Begun /\ p \in Begun
  BY <1>1 DEF IInv, Calm, Begun
<1> QED  BY <1>1, <1>2, <1>3, <1>4, <1>5, Queued

(* The queue is whole, or what is behind its first task.                   *)
LEMMA CalmRest ==
    ASSUME IInv, NEW r, r.panes \subseteq m.panes, NEW rest,
           rest = queue \/ (Len(queue) > 0 /\ rest = Tail(queue))
    PROVE  WorkOK(rest, r, dead \cup eof, Begun, Asked) /\ EmptiesOK(rest, r, dead)
<1>1. WorkOK(queue, m, dead \cup eof, Begun, Asked) /\ EmptiesOK(queue, m, dead)
  BY DEF IInv, Calm
<1>2. WorkOK(rest, m, dead \cup eof, Begun, Asked) /\ EmptiesOK(rest, m, dead)
  <2>1. CASE rest = queue
    BY <1>1, <2>1
  <2>2. CASE Len(queue) > 0 /\ rest = Tail(queue)
    <3>1. /\ WorkOK(Tail(queue), m, dead \cup eof, Begun, Asked)
          /\ EmptiesOK(Tail(queue), m, dead)
      BY <1>1, <2>2, TailFacts
    <3> QED  BY <2>2, <3>1
  <2> QED  BY <2>1, <2>2
<1>3. Asked \subseteq Asked /\ Begun \subseteq Begun /\ dead \cup eof \subseteq dead \cup eof /\ dead \subseteq dead
      /\ r.panes \cap Begun \subseteq m.panes
  OBVIOUS
<1> QED  BY <1>2, <1>3, WorkLater, EmptiesLater

(* A handler that adds no pane and starts no spawn.                        *)
LEMMA ThinStep ==
    ASSUME IInv, NEW r, Fine(r, dead, Begun), r.panes \subseteq m.panes, NEW rest,
           rest = queue \/ (Len(queue) > 0 /\ rest = Tail(queue)),
           Leave(r, rest, <<>>), UNCHANGED <<phase, target, dead, eof>>,
           quit' \in BOOLEAN, parity' \in 0 .. 1
    PROVE  IInv'
<1>1. Begun' = Begun /\ Asked' = Asked
  BY SamePhases
<1>2. /\ m' \in Registries /\ m'.spawned = <<>>
  BY LeaveFacts
<1>3. TypeOK'
  BY <1>2 DEF IInv, TypeOK, Registries
<1>4. r.panes \cup dead' \cup eof' \subseteq Begun'
  BY <1>1 DEF IInv, Calm
<1>5. WorkOK(rest, r, dead' \cup eof', Begun', Asked) /\ EmptiesOK(rest, r, dead')
  BY <1>1, CalmRest
<1>6. WorkOK(<<>>, r, dead' \cup eof', Begun', {}) /\ EmptiesOK(<<>>, r, dead')
  BY EmptyQueue
<1>7. Asked \cap {} = {} /\ Asked \cup {} \subseteq Asked' /\ Fine(r, dead, Begun') /\ dead' = dead
  BY <1>1
<1> QED  BY <1>3, <1>4, <1>5, <1>6, <1>7, LeavesCalm

LEMMA KillWindowStep ==
    ASSUME IInv, NEW w \in Ids, KillWindow(w)
    PROVE  IInv'
<1> DEFINE r == KillWindowIn(m, w, dead, Waiting)
<1>1. /\ Leave(r, queue, <<>>)
      /\ UNCHANGED <<phase, target, dead, eof, quit, parity>>
  BY DEF KillWindow
<1>2. Fine(r, dead, Begun) /\ r.panes \subseteq m.panes
  BY CalmIsFine, KillWindowInFacts DEF Thins
<1> HIDE DEF r
<1>3. quit' \in BOOLEAN /\ parity' \in 0 .. 1
  BY <1>1 DEF IInv, TypeOK
<1> QED  BY <1>1, <1>2, <1>3, ThinStep

(* What a spawn that ends queues: its last task is a prune.                *)
LEMMA ReleasedFacts ==
    ASSUME NEW s \in Spawners, NEW r, NEW ended, NEW ids
    PROVE  /\ WorkOK(Released(s), r, ended, ids, {})
           /\ \E p \in Seq(Tasks) : Released(s) = Append(p, Task("prune", 0))
<1> DEFINE a == Task("reconcile", 0)
           b == Task("prune", 0)
<1>1. a \in Tasks /\ b \in Tasks /\ a.kind = "reconcile" /\ b.kind = "prune"
  <2>1. "reconcile" \in Kinds /\ "prune" \in Kinds /\ 0 \in Ids
    BY IdsFinite DEF Kinds
  <2> QED  BY <2>1, TaskTyped
<1>2. Released(s) = (IF target[s] = s THEN <<a, b, b>> ELSE <<b>>)
  BY DEF Released
<1> HIDE DEF a, b
<1>3. \E p \in Seq(Tasks) : Released(s) = Append(p, b)
  <2>1. CASE target[s] = s
    <3>1. <<a, b>> \in Seq(Tasks) /\ Append(<<a, b>>, b) = <<a, b, b>>
      <4>1. a \in Tasks /\ b \in Tasks
        BY <1>1
      <4>2. <<a, b>> \in Seq(Tasks)
        BY <4>1
      <4>3. Append(<<a, b>>, b) = <<a, b, b>>
        <5> DEFINE u == Append(<<a, b>>, b)
                   v == <<a, b, b>>
        <5>1. u \in Seq(Tasks) /\ Len(u) = 3 /\ u[1] = a /\ u[2] = b /\ u[3] = b
          <6>1. Len(<<a, b>>) = 2 /\ <<a, b>>[1] = a /\ <<a, b>>[2] = b
            OBVIOUS
          <6> QED  BY <4>1, <4>2, <6>1, AppendProperties
        <5>2. v \in Seq(Tasks) /\ Len(v) = 3 /\ v[1] = a /\ v[2] = b /\ v[3] = b
          BY <4>1
        <5> HIDE DEF u, v
        <5>3. u = v
          BY <5>1, <5>2
        <5> QED  BY <5>3 DEF u, v
      <4> QED  BY <4>2, <4>3
    <3> QED  BY <1>2, <2>1, <3>1
  <2>2. CASE target[s] # s
    <3>1. <<>> \in Seq(Tasks) /\ Append(<<>>, b) = <<b>>
      OBVIOUS
    <3> QED  BY <1>2, <2>2, <3>1
  <2> QED  BY <2>1, <2>2
<1>4. /\ Released(s) \in Seq(Tasks)
      /\ \A i \in DOMAIN Released(s) : Released(s)[i] = a \/ Released(s)[i] = b
  BY <1>1, <1>2
<1>5. WorkOK(Released(s), r, ended, ids, {})
  BY <1>1, <1>4 DEF WorkOK
<1> QED  BY <1>3, <1>5 DEF b

(* Queues behind another queue still end in a prune.                       *)
LEMMA LastIsPrune ==
    ASSUME NEW p \in Seq(Tasks), NEW q, \E u \in Seq(Tasks) : q = Append(u, Task("prune", 0))
    PROVE  \E u \in Seq(Tasks) : p \o q = Append(u, Task("prune", 0))
<1> DEFINE b == Task("prune", 0)
<1>1. PICK u \in Seq(Tasks) : q = Append(u, b)
  OBVIOUS
<1>2. b \in Tasks
  <2>1. "prune" \in Kinds /\ 0 \in Ids
    BY IdsFinite DEF Kinds
  <2> QED  BY <2>1, TaskTyped
<1> HIDE DEF b
<1>3. p \o Append(u, b) = Append(p \o u, b) /\ p \o u \in Seq(Tasks)
  BY <1>2
<1> QED  BY <1>1, <1>3 DEF b

(* The domain's pane and its tab are new to the mux, and it has the tab in *)
(* the window that was asked for, if that is still there.                  *)
LEMMA KnownFacts ==
    ASSUME IInv, NEW s \in Spawners, phase[s] = "waiting", NEW ids, Begun \cup {s} \subseteq ids
    PROVE  LET known == [m EXCEPT !.tabs = @ \cup {s}, !.panes = @ \cup {s}]
               found == target[s] \in m.open
               r == IF found THEN [known EXCEPT !.list[target[s]] = Append(@, s)] ELSE known
           IN /\ Fine(r, dead, ids) /\ r.spawned = <<>>
              /\ r.open = m.open /\ r.tabs = m.tabs \cup {s} /\ r.panes = m.panes \cup {s}
              /\ Listed(r) = IF found THEN Listed(m) \cup {s} ELSE Listed(m)
              /\ s \notin m.tabs
<1> DEFINE known == [m EXCEPT !.tabs = @ \cup {s}, !.panes = @ \cup {s}]
           found == target[s] \in m.open
           r == IF found THEN [known EXCEPT !.list[target[s]] = Append(@, s)] ELSE known
           w == target[s]
           list == IF found THEN [m.list EXCEPT ![w] = Append(m.list[w], s)] ELSE m.list
<1>1. /\ m \in Registries /\ m.spawned = <<>> /\ Once(m) /\ m.tabs \subseteq Begun
      /\ m.list \in [Ids -> Seq(Ids)] /\ w \in Ids /\ s \in Ids
  BY IdsFinite DEF IInv, Calm, TypeOK
<1>2. s \notin Begun
  BY IdsFinite DEF Begun, Started, Spawners
<1>3. /\ r.open = m.open /\ r.list = list /\ r.tabs = m.tabs \cup {s} /\ r.panes = m.panes \cup {s}
      /\ r.spawned = m.spawned
      /\ r = [open |-> r.open, list |-> r.list, tabs |-> r.tabs, panes |-> r.panes, spawned |-> r.spawned]
  <2>1. /\ DOMAIN m = {"open", "list", "tabs", "panes", "spawned"}
        /\ m = [open |-> m.open, list |-> m.list, tabs |-> m.tabs, panes |-> m.panes, spawned |-> m.spawned]
    BY <1>1 DEF Registries
  <2>2. known = [open |-> m.open, list |-> m.list, tabs |-> m.tabs \cup {s}, panes |-> m.panes \cup {s}, spawned |-> m.spawned]
    <3>1. known = [m EXCEPT !.tabs = m.tabs \cup {s}, !.panes = m.panes \cup {s}]
      OBVIOUS
    <3> HIDE DEF known
    <3> QED  BY <2>1, <3>1
  <2> HIDE DEF known
  <2>3. CASE found
    <3>1. r = [known EXCEPT !.list = [known.list EXCEPT ![w] = Append(known.list[w], s)]]
      BY <2>2, <2>3
    <3>2. list = [m.list EXCEPT ![w] = Append(m.list[w], s)] /\ known.list = m.list
      BY <2>2, <2>3
    <3> HIDE DEF r, list, w
    <3> QED  BY <2>2, <3>1, <3>2
  <2>4. CASE ~found
    <3>1. r = known /\ list = m.list
      BY <2>4
    <3> HIDE DEF r, list
    <3> QED  BY <2>2, <3>1
  <2> QED  BY <2>3, <2>4
<1>4. \A v \in Ids : IsInjective(m.list[v]) /\ Range(m.list[v]) \subseteq m.tabs /\ s \notin Range(m.list[v])
  BY <1>1, <1>2 DEF Once
<1>5. /\ m.list[w] \in Seq(Ids) /\ Append(m.list[w], s) \in Seq(Ids)
      /\ \A x : x \in Range(Append(m.list[w], s)) <=> x \in Range(m.list[w]) \/ x = s
      /\ IsInjective(Append(m.list[w], s))
  BY <1>1, <1>4, AppendFacts
<1> HIDE DEF r, found
<1>6. /\ list \in [Ids -> Seq(Ids)]
      /\ \A v \in Ids : v # w \/ ~found => list[v] = m.list[v]
      /\ found => list[w] = Append(m.list[w], s)
  BY <1>1, <1>5
<1> HIDE DEF list
<1> HIDE DEF w
<1>7. r \in Registries
  <2>1. m.open \subseteq Ids /\ m.tabs \subseteq Ids /\ m.panes \subseteq Ids /\ m.spawned \in Seq(Tasks)
    BY <1>1 DEF Registries
  <2>2. r.list \in [Ids -> Seq(Ids)] /\ r.open \subseteq Ids /\ r.tabs \subseteq Ids /\ r.panes \subseteq Ids
        /\ r.spawned \in Seq(Tasks)
    BY <1>1, <1>3, <1>6, <2>1
  <2> QED  BY <1>3, <2>2 DEF Registries
<1>8. \A v \in Ids : IF found /\ v = w THEN \A t : t \in Range(list[v]) <=> t \in Range(m.list[v]) \/ t = s
                     ELSE list[v] = m.list[v]
  BY <1>5, <1>6
<1>9. Once(r)
  <2>1. ASSUME NEW v \in Ids
        PROVE  /\ IsInjective(r.list[v]) /\ Range(r.list[v]) \subseteq r.tabs
               /\ (v \notin r.open => r.list[v] = <<>>)
    <3>1. CASE found /\ v = w
      BY <1>3, <1>4, <1>5, <1>6, <1>8, <3>1 DEF found, w
    <3>2. CASE ~(found /\ v = w)
      <4>1. r.list[v] = m.list[v]
        BY <1>3, <1>8, <3>2
      <4> QED  BY <1>1, <1>3, <1>4, <4>1 DEF Once
    <3> QED  BY <3>1, <3>2
  <2>2. ASSUME NEW u \in Ids, NEW v \in Ids, u # v
        PROVE  Range(r.list[u]) \cap Range(r.list[v]) = {}
    <3>1. Range(m.list[u]) \cap Range(m.list[v]) = {}
      BY <1>1, <2>2 DEF Once
    <3>2. \A x \in Ids : s \notin Range(m.list[x])
      BY <1>4
    <3>3. CASE ~found
      BY <1>3, <1>8, <3>1, <3>3
    <3>4. CASE found /\ u = w
      BY <1>3, <1>8, <2>2, <3>1, <3>2, <3>4
    <3>5. CASE found /\ u # w
      BY <1>3, <1>8, <2>2, <3>1, <3>2, <3>5
    <3> QED  BY <3>3, <3>4, <3>5
  <2> QED  BY <2>1, <2>2 DEF Once
<1>10. Listed(r) = IF found THEN Listed(m) \cup {s} ELSE Listed(m)
  <2>1. \A t : t \in Listed(r) <=> \E v \in Ids : t \in Range(r.list[v])
    BY <1>7, <1>9, ListedIn
  <2>2. \A t : t \in Listed(m) <=> \E v \in Ids : t \in Range(m.list[v])
    BY <1>1, ListedIn
  <2>3. CASE found
    BY <1>1, <1>3, <1>8, <2>1, <2>2, <2>3
  <2>4. CASE ~found
    BY <1>3, <1>8, <2>1, <2>2, <2>4
  <2> QED  BY <2>3, <2>4
<1>11. Fine(r, dead, ids) /\ r.spawned = <<>>
  <2>1. r.spawned = <<>> /\ r.tabs \subseteq ids
    BY <1>1, <1>3
  <2>2. DOMAIN r.spawned = {}
    BY <2>1
  <2> QED  BY <1>7, <1>9, <2>1, <2>2 DEF Fine
<1> QED  BY <1>1, <1>2, <1>3, <1>10, <1>11 DEF r, found

LEMMA SpawnDoneStep ==
    ASSUME IInv, NEW s \in Spawners, SpawnDone(s)
    PROVE  IInv'
<1> DEFINE known == [m EXCEPT !.tabs = @ \cup {s}, !.panes = @ \cup {s}]
           found == target[s] \in m.open
           r == IF found THEN [known EXCEPT !.list[target[s]] = Append(@, s)] ELSE known
<1>1. /\ phase[s] = "waiting"
      /\ phase' = [phase EXCEPT ![s] = IF found THEN "done" ELSE "lost"]
      /\ Leave(r, queue, Released(s))
      /\ UNCHANGED <<target, dead, eof, quit, parity>>
  BY DEF SpawnDone
<1> HIDE DEF found
<1>2. phase \in [Spawners -> {"none", "asked", "waiting", "done", "lost", "failed"}]
  BY DEF IInv, TypeOK
<1>3. /\ phase' \in [Spawners -> {"none", "asked", "waiting", "done", "lost", "failed"}]
      /\ phase'[s] \in {"done", "lost"} /\ \A t \in Spawners : t # s => phase'[t] = phase[t]
  BY <1>1, <1>2
<1>4. Begun' = Begun \cup {s} /\ Asked' = Asked /\ s \notin Begun
  <2>1. s \in Ids /\ s # 0 /\ Spawners \subseteq Ids
    BY IdsFinite DEF Spawners
  <2> QED  BY <1>1, <1>3, <2>1 DEF Begun, Asked, Started
<1>5. /\ Fine(r, dead, Begun') /\ r.spawned = <<>>
      /\ r.panes = m.panes \cup {s}
  <2>1. Begun \cup {s} \subseteq Begun'
    BY <1>4
  <2> QED  BY <1>1, <2>1, KnownFacts DEF found
<1> HIDE DEF r
<1>6. TypeOK'
  <2>1. m' \in Registries /\ m'.spawned = <<>>
    BY <1>1, <1>5, LeaveFacts
  <2> QED  BY <1>1, <1>3, <2>1 DEF IInv, TypeOK, Registries
<1>7. /\ WorkOK(queue, m, dead \cup eof, Begun, Asked)
      /\ m.panes \cup dead \cup eof \subseteq Begun
  BY DEF IInv, Calm
<1>8. WorkOK(queue, r, dead' \cup eof', Begun', Asked)
  <2>1. /\ Asked \subseteq Asked /\ Begun \subseteq Begun' /\ dead \cup eof \subseteq dead' \cup eof'
        /\ r.panes \cap Begun \subseteq m.panes
    BY <1>1, <1>4, <1>5
  <2> QED  BY <1>7, <2>1, WorkLater
<1>9. /\ WorkOK(Released(s), r, dead' \cup eof', Begun', {})
      /\ \E p \in Seq(Tasks) : Released(s) = Append(p, Task("prune", 0))
  BY ReleasedFacts
<1>10. \E p \in Seq(Tasks) : queue \o r.spawned \o Released(s) = Append(p, Task("prune", 0))
  <2>1. queue \in Seq(Tasks) /\ queue \o r.spawned = queue
    BY <1>5, <1>7, ConcatEmptySeq DEF WorkOK
  <2> QED  BY <1>9, <2>1, LastIsPrune
<1>11. /\ r.panes \cup dead' \cup eof' \subseteq Begun' /\ dead' = dead
       /\ Asked \cap {} = {} /\ Asked \cup {} \subseteq Asked'
  BY <1>1, <1>4, <1>5, <1>7
<1> QED  BY <1>1, <1>5, <1>6, <1>8, <1>9, <1>10, <1>11, LeavesCalm

LEMMA SpawnFailsStep ==
    ASSUME IInv, NEW s \in Spawners, SpawnFails(s)
    PROVE  IInv'
<1>1. /\ phase[s] = "waiting"
      /\ phase' = [phase EXCEPT ![s] = "failed"]
      /\ Leave(m, queue, Released(s))
      /\ UNCHANGED <<target, dead, eof, quit, parity>>
  BY DEF SpawnFails
<1>2. phase \in [Spawners -> {"none", "asked", "waiting", "done", "lost", "failed"}]
  BY DEF IInv, TypeOK
<1>3. Begun' = Begun /\ Asked' = Asked
  BY <1>1, <1>2 DEF Begun, Asked, Started
<1>4. Fine(m, dead, Begun') /\ m.spawned = <<>>
  BY <1>3, CalmIsFine DEF IInv, Calm
<1>5. TypeOK'
  <2>1. m' \in Registries /\ m'.spawned = <<>>
    BY <1>1, <1>4, LeaveFacts
  <2> QED  BY <1>1, <1>2, <2>1 DEF IInv, TypeOK, Registries
<1>6. /\ WorkOK(queue, m, dead' \cup eof', Begun', Asked)
      /\ m.panes \cup dead' \cup eof' \subseteq Begun' /\ dead' = dead
      /\ Asked \cap {} = {} /\ Asked \cup {} \subseteq Asked'
  BY <1>1, <1>3 DEF IInv, Calm
<1>7. /\ WorkOK(Released(s), m, dead' \cup eof', Begun', {})
      /\ \E p \in Seq(Tasks) : Released(s) = Append(p, Task("prune", 0))
  BY ReleasedFacts
<1>8. \E p \in Seq(Tasks) : queue \o m.spawned \o Released(s) = Append(p, Task("prune", 0))
  <2>1. queue \in Seq(Tasks) /\ queue \o m.spawned = queue
    BY <1>4, <1>6, ConcatEmptySeq DEF WorkOK
  <2> QED  BY <1>7, <2>1, LastIsPrune
<1> QED  BY <1>1, <1>4, <1>5, <1>6, <1>7, <1>8, LeavesCalm

(* A new window is empty.                                                  *)
LEMMA OpenWindowFacts ==
    ASSUME IInv, NEW s \in Ids
    PROVE  LET r == OpenWindow(m, s)
           IN /\ Fine(r, dead, Begun) /\ r.spawned = <<>> /\ r.panes = m.panes
              /\ r.tabs = m.tabs /\ Listed(r) = Listed(m) /\ m.open \subseteq r.open
<1> DEFINE r == OpenWindow(m, s)
<1>1. m \in Registries /\ m.spawned = <<>> /\ Once(m) /\ m.tabs \subseteq Begun
  BY DEF IInv, Calm
<1>2. /\ r.open = m.open \cup {s} /\ r.list = m.list /\ r.tabs = m.tabs /\ r.panes = m.panes
      /\ r.spawned = m.spawned
      /\ r = [open |-> r.open, list |-> r.list, tabs |-> r.tabs, panes |-> r.panes, spawned |-> r.spawned]
  <2>1. /\ DOMAIN m = {"open", "list", "tabs", "panes", "spawned"}
        /\ m = [open |-> m.open, list |-> m.list, tabs |-> m.tabs, panes |-> m.panes, spawned |-> m.spawned]
    BY <1>1 DEF Registries
  <2>2. r = [m EXCEPT !.open = m.open \cup {s}]
    BY DEF OpenWindow
  <2> HIDE DEF r
  <2> QED  BY <2>1, <2>2
<1> HIDE DEF r
<1>3. r \in Registries /\ Once(r)
  BY <1>1, <1>2 DEF Registries, Once
<1>4. Listed(r) = Listed(m)
  <2>1. \A t : t \in Listed(r) <=> \E v \in Ids : t \in Range(r.list[v])
    BY <1>3, ListedIn
  <2>2. \A t : t \in Listed(m) <=> \E v \in Ids : t \in Range(m.list[v])
    BY <1>1, ListedIn
  <2> QED  BY <1>2, <2>1, <2>2
<1>5. DOMAIN r.spawned = {}
  BY <1>1, <1>2
<1>6. Fine(r, dead, Begun)
  BY <1>1, <1>2, <1>3, <1>5 DEF Fine
<1> QED  BY <1>1, <1>2, <1>4, <1>6 DEF r

LEMMA StartSpawnStep ==
    ASSUME IInv, Len(queue) > 0, Head(queue).kind = "spawn",
           StartSpawn(Head(queue).id, Tail(queue)),
           UNCHANGED <<target, dead, eof>>, parity' \in 0 .. 1
    PROVE  IInv'
<1> DEFINE s == Head(queue).id
           fits == target[s] = s \/ (target[s] \in m.open /\ Len(m.list[target[s]]) > 0)
           r == IF target[s] = s THEN OpenWindow(m, s) ELSE m
           more == IF fits THEN <<>> ELSE <<Task("prune", 0)>>
           ended == dead \cup eof
<1>1. /\ phase' = [phase EXCEPT ![s] = IF fits THEN "waiting" ELSE "failed"]
      /\ Leave(r, Tail(queue), more)
      /\ UNCHANGED quit
  BY DEF StartSpawn
<1> HIDE DEF fits
<1>2. /\ s \in Asked /\ WorkOK(Tail(queue), m, ended, Begun, Asked \ {s})
      /\ EmptiesOK(Tail(queue), m, dead)
  <2>1. WorkOK(queue, m, ended, Begun, Asked) /\ EmptiesOK(queue, m, dead)
    BY DEF IInv, Calm
  <2> HIDE DEF ended
  <2> QED  BY <2>1, TailFacts
<1>3. /\ phase \in [Spawners -> {"none", "asked", "waiting", "done", "lost", "failed"}]
      /\ s \in Spawners /\ s \in Ids /\ phase[s] = "asked"
  BY <1>2, IdsFinite DEF IInv, TypeOK, Asked
<1> HIDE DEF s
<1>4. Begun' = Begun /\ Asked' = Asked \ {s}
  BY <1>1, <1>3 DEF Begun, Asked, Started
<1>5. /\ Fine(r, dead, Begun) /\ r.spawned = <<>> /\ r.panes = m.panes
  BY <1>3, OpenWindowFacts, CalmIsFine DEF IInv, Calm
<1> HIDE DEF r
<1>6. TypeOK'
  <2>1. m' \in Registries /\ m'.spawned = <<>>
    BY <1>1, <1>5, LeaveFacts
  <2> QED  BY <1>1, <1>3, <2>1 DEF IInv, TypeOK, Registries
<1>7. WorkOK(more, r, ended, Begun, {}) /\ EmptiesOK(more, r, dead)
  <2> DEFINE e == Task("prune", 0)
  <2>1. e \in Tasks /\ e.kind = "prune"
    <3>1. "prune" \in Kinds /\ 0 \in Ids
      BY IdsFinite DEF Kinds
    <3> QED  BY <3>1, TaskTyped
  <2>2. more = <<>> \/ more = <<e>>
    OBVIOUS
  <2> HIDE DEF e, more, ended
  <2> QED  BY <2>1, <2>2, OneTask, EmptyQueue
<1>8. WorkOK(Tail(queue), r, ended, Begun, Asked \ {s}) /\ EmptiesOK(Tail(queue), r, dead)
  <2>1. /\ Asked \ {s} \subseteq Asked \ {s} /\ Begun \subseteq Begun /\ ended \subseteq ended
        /\ r.panes \cap Begun \subseteq m.panes /\ dead \subseteq dead /\ r.panes \subseteq m.panes
    BY <1>5
  <2> HIDE DEF ended
  <2> QED  BY <1>2, <2>1, WorkLater, EmptiesLater
<1>9. /\ r.panes \cup dead' \cup eof' \subseteq Begun' /\ dead' = dead
      /\ (Asked \ {s}) \cap {} = {} /\ (Asked \ {s}) \cup {} \subseteq Asked'
      /\ Fine(r, dead, Begun') /\ dead' \cup eof' = ended
  BY <1>4, <1>5 DEF IInv, Calm
<1> HIDE DEF more, ended
<1>10. /\ WorkOK(Tail(queue), r, dead' \cup eof', Begun', Asked \ {s}) /\ EmptiesOK(Tail(queue), r, dead')
       /\ WorkOK(more, r, dead' \cup eof', Begun', {}) /\ EmptiesOK(more, r, dead')
  BY <1>4, <1>7, <1>8, <1>9
<1> QED  BY <1>1, <1>6, <1>9, <1>10, LeavesCalm

(* A task of the mux: what it leaves is fine and has lost ended panes.     *)
LEMMA MuxTaskFacts ==
    ASSUME IInv, Len(queue) > 0, MuxTask(Head(queue), Tail(queue)),
           Head(queue).kind \notin {"spawn", "empty"}
    PROVE  \E r : /\ Leave(r, Tail(queue), <<>>) /\ Fine(r, dead, Begun)
                  /\ Thins(m, r, dead \cup eof)
                  /\ \/ Keeps(m, r)
                     \/ /\ Head(queue).kind = "reconcile"
                        /\ m.open # {} /\ Primary(m) \notin r.open
<1> DEFINE task == Head(queue)
           rest == Tail(queue)
           ended == dead \cup eof
<1>1. Fine(m, dead, Begun)
  BY CalmIsFine
<1>2. /\ task \in Tasks
      /\ (task.kind = "remove" => task.id \in Begun /\ (task.id \in ended \/ task.id \notin m.panes))
  <2>1. WorkOK(queue, m, ended, Begun, Asked) /\ EmptiesOK(queue, m, dead)
    BY DEF IInv, Calm
  <2> HIDE DEF ended
  <2> QED  BY <2>1, TailFacts
<1>3. task.kind \in {"prune", "remove", "reconcile"}
  BY <1>2 DEF Tasks, Kinds
<1>4. CASE task.kind = "prune"
  <2> DEFINE r == Prune(m, dead, Waiting)
  <2>1. Leave(r, rest, <<>>)
    BY <1>4 DEF MuxTask
  <2>2. Fine(r, dead, Begun) /\ Thins(m, r, dead) /\ Keeps(m, r)
    BY <1>1, PruneFacts
  <2> HIDE DEF r
  <2>3. Thins(m, r, ended)
    BY <2>2 DEF Thins
  <2> QED  BY <2>1, <2>2, <2>3
<1>5. CASE task.kind = "remove"
  <2> DEFINE r == RemovePane(m, task.id, dead, Waiting)
  <2>1. Leave(r, rest, <<>>)
    BY <1>5 DEF MuxTask
  <2>2. Fine(r, dead, Begun) /\ Thins(m, r, dead \cup {task.id}) /\ Keeps(m, r)
    BY <1>1, RemovePaneFacts
  <2> HIDE DEF r
  <2>3. Thins(m, r, ended)
    BY <1>2, <1>5, <2>2 DEF Thins
  <2> QED  BY <2>1, <2>2, <2>3
<1>6. CASE task.kind = "reconcile"
  <2> DEFINE r == Consolidate(m, dead, Waiting)
  <2>1. Leave(r, rest, <<>>)
    BY <1>6 DEF MuxTask
  <2>2. /\ Fine(r, dead, Begun) /\ Thins(m, r, dead)
        /\ (Keeps(m, r) \/ (m.open # {} /\ Primary(m) \notin r.open))
    BY <1>1, ConsolidateFacts
  <2> HIDE DEF r
  <2>3. Thins(m, r, ended)
    BY <2>2 DEF Thins
  <2> QED  BY <1>6, <2>1, <2>2, <2>3
<1> QED  BY <1>3, <1>4, <1>5, <1>6

LEMMA DispatchStep ==
    ASSUME IInv, Dispatch
    PROVE  IInv'
<1> DEFINE task == Head(queue)
<1>1. /\ Len(queue) > 0 /\ parity' \in 0 .. 1 /\ UNCHANGED <<target, dead, eof>>
  BY DEF Dispatch, IInv, TypeOK
<1>2. CASE task.kind = "spawn"
  <2>1. StartSpawn(task.id, Tail(queue))
    BY <1>2 DEF Dispatch
  <2> QED  BY <1>1, <1>2, <2>1, StartSpawnStep
<1>3. CASE task.kind = "empty"
  <2>1. CheckQuit(Tail(queue))
    BY <1>3 DEF Dispatch
  <2>2. quit' \in BOOLEAN /\ Leave(m, Tail(queue), <<>>) /\ phase' = phase
    BY <2>1 DEF CheckQuit
  <2> QED  BY <1>1, <2>2, CalmIsFine, ThinStep
<1>4. CASE task.kind \notin {"spawn", "empty"}
  <2>1. MuxTask(task, Tail(queue))
    BY <1>4 DEF Dispatch
  <2>2. PICK r : Leave(r, Tail(queue), <<>>) /\ Fine(r, dead, Begun) /\ Thins(m, r, dead \cup eof)
    BY <1>1, <1>4, <2>1, MuxTaskFacts
  <2>3. r.panes \subseteq m.panes
    BY <2>2 DEF Thins
  <2>4. UNCHANGED <<phase, quit>> /\ quit' \in BOOLEAN
    BY <2>1 DEF MuxTask, IInv, TypeOK
  <2> QED  BY <1>1, <2>2, <2>3, <2>4, ThinStep
<1> QED  BY <1>2, <1>3, <1>4

LEMMA InitFacts == Init => IInv
<1> SUFFICES ASSUME Init PROVE IInv
  OBVIOUS
<1>1. /\ 0 \in Ids /\ Spawners \subseteq Ids /\ 0 \notin Spawners
  BY IdsFinite DEF Spawners
<1>2. /\ <<>> \in Seq(Ids) /\ <<0>> \in Seq(Ids) /\ <<>> \in Seq(Tasks)
      /\ Range(<<>>) = {} /\ Range(<<0>>) = {0} /\ IsInjective(<<>>) /\ IsInjective(<<0>>)
  <2>1. /\ DOMAIN <<>> = {} /\ DOMAIN <<0>> = {1} /\ <<0>>[1] = 0
    OBVIOUS
  <2> QED  BY <1>1, <2>1 DEF Range, IsInjective
<1>3. /\ m.open = {0} /\ m.tabs = {0} /\ m.panes = {0} /\ m.spawned = <<>>
      /\ m.list = [w \in Ids |-> IF w = 0 THEN <<0>> ELSE <<>>]
      /\ m = [open |-> m.open, list |-> m.list, tabs |-> m.tabs, panes |-> m.panes, spawned |-> m.spawned]
  BY DEF Init
<1>4. m.list \in [Ids -> Seq(Ids)]
  BY <1>2, <1>3
<1>5. m \in Registries
  BY <1>1, <1>2, <1>3, <1>4 DEF Registries
<1>6. Once(m)
  <2>1. \A w \in Ids : m.list[w] = IF w = 0 THEN <<0>> ELSE <<>>
    BY <1>3
  <2> QED  BY <1>2, <1>3, <2>1 DEF Once
<1>7. TypeOK
  <2>1. m.open \subseteq Ids /\ m.tabs \subseteq Ids /\ m.panes \subseteq Ids
    BY <1>1, <1>3
  <2>2. /\ phase \in [Spawners -> {"none", "asked", "waiting", "done", "lost", "failed"}]
        /\ target \in [Spawners -> Ids]
    BY <1>1 DEF Init
  <2>3. dead \subseteq Ids /\ eof \subseteq Ids /\ quit \in BOOLEAN /\ parity \in 0 .. 1
    <3>1. dead = {} /\ eof = {} /\ quit = FALSE /\ parity = 0
      BY DEF Init
    <3>2. quit \in BOOLEAN
      BY <3>1, Zenon
    <3>3. parity \in 0 .. 1
      BY <3>1
    <3> QED  BY <3>1, <3>2, <3>3
  <2> QED  BY <1>3, <1>4, <2>1, <2>2, <2>3 DEF TypeOK
<1>8. m.tabs \cup m.panes \cup dead \cup eof \subseteq Begun
  BY <1>1, <1>3 DEF Init, Begun, Started
<1>9. WorkOK(queue, m, dead \cup eof, Begun, Asked) /\ EmptiesOK(queue, m, dead)
  <2>1. queue = <<>>
    BY DEF Init
  <2> QED  BY <2>1, EmptyQueue
<1> QED  BY <1>3, <1>5, <1>6, <1>7, <1>8, <1>9 DEF IInv, Calm

LEMMA SameFacts ==
    ASSUME IInv, UNCHANGED vars
    PROVE  IInv'
<1>1. /\ m' = m /\ phase' = phase /\ target' = target /\ dead' = dead /\ eof' = eof
      /\ queue' = queue /\ quit' = quit /\ parity' = parity
  BY DEF vars
<1>2. Begun' = Begun /\ Asked' = Asked
  BY <1>1, SamePhases
<1>3. TypeOK'
  BY <1>1 DEF IInv, TypeOK
<1>4. Calm'
  BY <1>1, <1>2 DEF IInv, Calm
<1> QED  BY <1>3, <1>4 DEF IInv

LEMMA StepFacts == IInv /\ [Next]_vars => IInv'
<1> SUFFICES ASSUME IInv, [Next]_vars PROVE IInv'
  OBVIOUS
<1>1. CASE \E s \in Spawners, w \in Ids : RequestSpawn(s, w)
  BY <1>1, RequestSpawnStep
<1>2. CASE \E s \in Spawners : SpawnDone(s) \/ SpawnFails(s)
  BY <1>2, SpawnDoneStep, SpawnFailsStep
<1>3. CASE \E p \in Ids : ChildExits(p) \/ PtyEof(p)
  BY <1>3, ChildExitsStep, PtyEofStep
<1>4. CASE \E w \in Ids : KillWindow(w)
  BY <1>4, KillWindowStep
<1>5. CASE Dispatch
  BY <1>5, DispatchStep
<1>6. CASE UNCHANGED vars
  BY <1>6, SameFacts
<1> QED  BY <1>1, <1>2, <1>3, <1>4, <1>5, <1>6 DEF Next

(* The registry's inductive invariant: between two tasks the windows share *)
(* out the tabs the mux knows, everything known has been spawned, and what *)
(* is queued still makes sense when its turn comes.                        *)
THEOREM RegistryIsCalm == Spec => []IInv
  BY InitFacts, StepFacts, PTL DEF Spec

(* Every variable has its type, for any number of spawns.                  *)
THEOREM RegistryTyped == Spec => []TypeOK
<1>1. IInv => TypeOK
  BY DEF IInv
<1> QED  BY <1>1, RegistryIsCalm, PTL

(* TabsListedOnce: between two tasks a tab is in one window at most, once, *)
(* and the mux knows it, whatever add_tab_to_window, remove_tab_internal   *)
(* and consolidate_workspace_windows have moved.                           *)
THEOREM TabsStayListedOnce == Spec => []TabsListedOnce
<1>1. IInv => TabsListedOnce
  <2> SUFFICES ASSUME IInv PROVE TabsListedOnce
    OBVIOUS
  <2>1. m \in Registries /\ Once(m) /\ m.open \subseteq Ids /\ TypeOK
    BY DEF IInv, Calm, Registries
  <2>2. Listed(m) \subseteq m.tabs
    BY <2>1, ListedIn DEF Once
  <2> QED  BY <2>1, <2>2 DEF TabsListedOnce, Once
<1> QED  BY <1>1, RegistryIsCalm, PTL
-----------------------------------------------------------------------------
(* What a spawn that is done leaves in the registry r.                     *)
Arrived(r, s) ==
    /\ Fine(r, dead, Begun \cup {s})
    /\ r.open = m.open /\ r.tabs = m.tabs \cup {s} /\ r.panes = m.panes \cup {s}
    /\ Listed(r) = IF target[s] \in m.open THEN Listed(m) \cup {s} ELSE Listed(m)
    /\ s \notin m.tabs

LEMMA SpawnDoneFacts ==
    ASSUME IInv, NEW s \in Spawners, SpawnDone(s)
    PROVE  \E r : Leave(r, queue, Released(s)) /\ Arrived(r, s)
<1> DEFINE known == [m EXCEPT !.tabs = @ \cup {s}, !.panes = @ \cup {s}]
           found == target[s] \in m.open
           r == IF found THEN [known EXCEPT !.list[target[s]] = Append(@, s)] ELSE known
           ids == Begun \cup {s}
<1>1. phase[s] = "waiting" /\ Leave(r, queue, Released(s))
  BY DEF SpawnDone
<1>2. Arrived(r, s)
  <2>1. Begun \cup {s} \subseteq ids
    OBVIOUS
  <2> HIDE DEF ids
  <2>2. /\ Fine(r, dead, ids)
        /\ r.open = m.open /\ r.tabs = m.tabs \cup {s} /\ r.panes = m.panes \cup {s}
        /\ Listed(r) = IF found THEN Listed(m) \cup {s} ELSE Listed(m)
        /\ s \notin m.tabs
    BY <1>1, <2>1, KnownFacts
  <2> HIDE DEF r
  <2> QED  BY <2>2 DEF Arrived, ids
<1> HIDE DEF r
<1> QED  BY <1>1, <1>2

LEMMA LivePanesStep ==
    ASSUME IInv, [Next]_vars
    PROVE  [\A p \in m.panes \ (dead \cup eof) :
              \/ p \in m'.panes
              \/ \E w \in m.open \ m'.open : KillWindow(w) /\ p \in Range(m.list[w])]_vars
<1> DEFINE Kept(p) == \/ p \in m'.panes
                      \/ \E w \in m.open \ m'.open : KillWindow(w) /\ p \in Range(m.list[w])
<1> SUFFICES ASSUME Next, NEW p \in m.panes \ (dead \cup eof) PROVE Kept(p)
  OBVIOUS
<1>1. CASE \E s \in Spawners, w \in Ids : RequestSpawn(s, w)
  BY <1>1 DEF RequestSpawn
<1>2. ASSUME NEW s \in Spawners, SpawnDone(s) PROVE Kept(p)
  <2>1. PICK r : Leave(r, queue, Released(s)) /\ Arrived(r, s)
    BY <1>2, SpawnDoneFacts
  <2>2. m'.panes = r.panes /\ m.panes \subseteq r.panes
    BY <2>1, LeaveFacts DEF Arrived
  <2> QED  BY <2>2
<1>3. ASSUME NEW s \in Spawners, SpawnFails(s) PROVE Kept(p)
  BY <1>3, CalmIsFine, LeaveFacts DEF SpawnFails
<1>4. CASE \E q \in Ids : ChildExits(q) \/ PtyEof(q)
  BY <1>4 DEF ChildExits, PtyEof
<1>5. ASSUME NEW w \in Ids, KillWindow(w) PROVE Kept(p)
  <2> DEFINE r == KillWindowIn(m, w, dead, Waiting)
  <2>1. Leave(r, queue, <<>>) /\ w \in m.open
    BY <1>5 DEF KillWindow
  <2>2. Fine(r, dead, Begun) /\ Thins(m, r, dead \cup Range(m.list[w])) /\ w \notin r.open
    BY CalmIsFine, KillWindowInFacts
  <2> HIDE DEF r
  <2>3. m'.panes = r.panes /\ m'.open = r.open
    BY <2>1, <2>2, LeaveFacts
  <2> QED  BY <1>5, <2>1, <2>2, <2>3 DEF Thins
<1>6. CASE Dispatch
  <2>1. CASE Head(queue).kind = "spawn"
    <3> DEFINE s == Head(queue).id
               r == IF target[s] = s THEN OpenWindow(m, s) ELSE m
    <3>1. \E more : Leave(r, Tail(queue), more)
      BY <1>6, <2>1 DEF Dispatch, StartSpawn
    <3>2. s \in Ids
      <4>1. WorkOK(queue, m, dead \cup eof, Begun, Asked) /\ EmptiesOK(queue, m, dead) /\ Len(queue) > 0
        BY <1>6 DEF IInv, Calm, Dispatch
      <4>2. Head(queue) \in Tasks
        BY <4>1, TailFacts
      <4> QED  BY <4>2 DEF Tasks
    <3>3. Fine(r, dead, Begun) /\ r.panes = m.panes
      BY <3>2, OpenWindowFacts, CalmIsFine
    <3> HIDE DEF r
    <3> QED  BY <3>1, <3>3, LeaveFacts
  <2>2. CASE Head(queue).kind = "empty"
    <3>1. Leave(m, Tail(queue), <<>>)
      BY <1>6, <2>2 DEF Dispatch, CheckQuit
    <3> QED  BY <3>1, CalmIsFine, LeaveFacts
  <2>3. CASE Head(queue).kind \notin {"spawn", "empty"}
    <3>1. MuxTask(Head(queue), Tail(queue)) /\ Len(queue) > 0
      BY <1>6, <2>3 DEF Dispatch
    <3>2. PICK r : Leave(r, Tail(queue), <<>>) /\ Fine(r, dead, Begun) /\ Thins(m, r, dead \cup eof)
      BY <2>3, <3>1, MuxTaskFacts
    <3>3. m'.panes = r.panes
      BY <3>2, LeaveFacts
    <3> QED  BY <3>2, <3>3 DEF Thins
  <2> QED  BY <2>1, <2>2, <2>3
<1> QED  BY <1>1, <1>2, <1>3, <1>4, <1>5, <1>6 DEF Next

(* LivePanesStay: prune_dead_windows, Mux::remove_pane of another pane and *)
(* consolidate_workspace_windows lose no pane whose program runs; only the *)
(* closing of its window does, by the user or for want of a GUI window.    *)
THEOREM LivePanesAreKept == Spec => LivePanesStay
  BY LivePanesStep, RegistryIsCalm, PTL DEF Spec, LivePanesStay

LEMMA LateTabsStep ==
    ASSUME IInv, [Next]_vars
    PROVE  [\A t \in (m'.tabs \ Listed(m')) \ (m.tabs \ Listed(m)) :
              \/ t \notin m.tabs /\ target[t] \notin m.open
              \/ /\ m.open # {} /\ Primary(m) \notin m'.open
                 /\ Len(queue) > 0 /\ Head(queue).kind = "reconcile"]_vars
<1> DEFINE Late(t) == \/ t \notin m.tabs /\ target[t] \notin m.open
                      \/ /\ m.open # {} /\ Primary(m) \notin m'.open
                         /\ Len(queue) > 0 /\ Head(queue).kind = "reconcile"
<1> SUFFICES ASSUME Next, NEW t \in (m'.tabs \ Listed(m')) \ (m.tabs \ Listed(m)) PROVE Late(t)
  OBVIOUS
<1>0. m' # m
  OBVIOUS
<1>1. CASE \E s \in Spawners, w \in Ids : RequestSpawn(s, w)
  BY <1>0, <1>1 DEF RequestSpawn
<1>2. ASSUME NEW s \in Spawners, SpawnDone(s) PROVE Late(t)
  <2>1. PICK r : Leave(r, queue, Released(s)) /\ Arrived(r, s)
    BY <1>2, SpawnDoneFacts
  <2>2. m'.tabs = r.tabs /\ Listed(m') = Listed(r)
    BY <2>1, LeaveFacts DEF Arrived
  <2> QED  BY <2>1, <2>2 DEF Arrived
<1>3. ASSUME NEW r, NEW rest, NEW more, Leave(r, rest, more), Fine(r, dead, Begun), Keeps(m, r) PROVE FALSE
  <2>1. m'.tabs = r.tabs /\ Listed(m') = Listed(r)
    BY <1>3, LeaveFacts
  <2> QED  BY <1>3, <2>1 DEF Keeps
<1>4. Fine(m, dead, Begun) /\ Keeps(m, m)
  BY CalmIsFine DEF Keeps
<1>5. ~ \E s \in Spawners : SpawnFails(s)
  BY <1>3, <1>4 DEF SpawnFails
<1>6. CASE \E q \in Ids : ChildExits(q) \/ PtyEof(q)
  BY <1>0, <1>6 DEF ChildExits, PtyEof
<1>7. ASSUME NEW w \in Ids, KillWindow(w) PROVE Late(t)
  <2> DEFINE r == KillWindowIn(m, w, dead, Waiting)
  <2>1. Leave(r, queue, <<>>)
    BY <1>7 DEF KillWindow
  <2>2. Fine(r, dead, Begun) /\ Keeps(m, r)
    BY <1>4, KillWindowInFacts
  <2> HIDE DEF r
  <2> QED  BY <1>3, <2>1, <2>2
<1>8. CASE Dispatch
  <2>0. Len(queue) > 0
    BY <1>8 DEF Dispatch
  <2>1. CASE Head(queue).kind = "spawn"
    <3> DEFINE s == Head(queue).id
               r == IF target[s] = s THEN OpenWindow(m, s) ELSE m
    <3>1. \E more : Leave(r, Tail(queue), more)
      BY <1>8, <2>1 DEF Dispatch, StartSpawn
    <3>2. s \in Ids
      <4>1. WorkOK(queue, m, dead \cup eof, Begun, Asked) /\ EmptiesOK(queue, m, dead)
        BY DEF IInv, Calm
      <4>2. Head(queue) \in Tasks
        BY <2>0, <4>1, TailFacts
      <4> QED  BY <4>2 DEF Tasks
    <3>3. Fine(r, dead, Begun) /\ Keeps(m, r)
      BY <1>4, <3>2, OpenWindowFacts DEF Keeps
    <3> HIDE DEF r
    <3> QED  BY <1>3, <3>1, <3>3
  <2>2. CASE Head(queue).kind = "empty"
    BY <1>3, <1>4, <1>8, <2>2 DEF Dispatch, CheckQuit
  <2>3. CASE Head(queue).kind \notin {"spawn", "empty"}
    <3>1. MuxTask(Head(queue), Tail(queue))
      BY <1>8, <2>3 DEF Dispatch
    <3>2. PICK r : /\ Leave(r, Tail(queue), <<>>) /\ Fine(r, dead, Begun)
                   /\ \/ Keeps(m, r)
                      \/ Head(queue).kind = "reconcile" /\ m.open # {} /\ Primary(m) \notin r.open
      BY <2>0, <2>3, <3>1, MuxTaskFacts
    <3>3. m'.open = r.open
      BY <3>2, LeaveFacts
    <3> QED  BY <1>3, <2>0, <3>2, <3>3
  <2> QED  BY <2>1, <2>2, <2>3
<1> QED  BY <1>1, <1>2, <1>5, <1>6, <1>7, <1>8 DEF Next

(* OnlyLateTabsStray: a tab ends up in no window only when add_tab_to_     *)
(* window did not find the one it was asked to add to, or when             *)
(* consolidate_workspace_windows has pruned the window it moves tabs to.   *)
THEOREM OnlyLateTabsAreLost == Spec => OnlyLateTabsStray
  BY LateTabsStep, RegistryIsCalm, PTL DEF Spec, OnlyLateTabsStray
-----------------------------------------------------------------------------
LEMMA QuitStep ==
    ASSUME IInv, [Next]_vars
    PROVE  [quit' /\ ~quit =>
              /\ Waiting = {}
              /\ m.panes \subseteq dead \/ \E i \in DOMAIN queue' : queue'[i].kind = "prune"]_vars
<1> SUFFICES ASSUME Next, quit', ~quit
             PROVE  /\ Waiting = {}
                    /\ m.panes \subseteq dead \/ \E i \in DOMAIN queue' : queue'[i].kind = "prune"
  OBVIOUS
<1>1. Dispatch
  BY DEF Next, RequestSpawn, SpawnDone, SpawnFails, ChildExits, PtyEof, KillWindow
<1>2. Len(queue) > 0 /\ Head(queue).kind = "empty" /\ CheckQuit(Tail(queue))
  BY <1>1 DEF Dispatch, StartSpawn, MuxTask
<1>3. Waiting = {}
  BY <1>2 DEF CheckQuit
<1>4. /\ WorkOK(queue, m, dead \cup eof, Begun, Asked) /\ EmptiesOK(queue, m, dead)
      /\ m.spawned = <<>>
  BY DEF IInv, Calm
<1>5. m.panes \subseteq dead \/ \E j \in DOMAIN Tail(queue) : Tail(queue)[j].kind = "prune"
  BY <1>2, <1>4, TailFacts
<1>6. queue' = Tail(queue)
  <2>1. Tail(queue) \in Seq(Tasks)
    BY <1>2, <1>4 DEF WorkOK
  <2>2. queue' = Tail(queue) \o <<>> \o <<>>
    BY <1>2, <1>4 DEF CheckQuit, Leave
  <2> QED  BY <2>1, <2>2, ConcatEmptySeq
<1> QED  BY <1>3, <1>5, <1>6

(* QuitLosesNoOldPane: the frontend quits on MuxNotification::Empty only   *)
(* without spawns under way, and with panes left only when a prune is      *)
(* still queued, the one that follows the Activity of a spawn.             *)
THEOREM QuittingIsSafe == Spec => QuitLosesNoOldPane
  BY QuitStep, RegistryIsCalm, PTL DEF Spec, QuitLosesNoOldPane
=============================================================================

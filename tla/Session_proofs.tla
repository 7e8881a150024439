--------------------------- MODULE Session_proofs ---------------------------
(* What comes back after a quit is what was there, with its own scrollback *)
(* and the tab that was active, and the session leaves the disk only then: *)
(* for any windows, tabs and splits and any crashes and failures.          *)
EXTENDS Session, FiniteSetTheorems, SequenceTheorems, WellFoundedInduction, TLAPS

(* A set of numbers that has some has a least. *)
LEMMA LeastOf ==
    ASSUME NEW S \in SUBSET Nat, S # {}
    PROVE  \E least \in S : \A k \in S : least <= k
<1> DEFINE R == OpToRel(<, Nat)
<1>1. \A x, y \in Nat : x < y => <<x, y>> \in R
  BY DEF OpToRel
<1>2. IsWellFoundedOn(R, Nat)
  BY NatLessThanWellFounded
<1> HIDE DEF R
<1>3. PICK least \in S : \A y \in S : <<y, least>> \notin R
  BY <1>2, WFMin
<1>4. least \in Nat /\ \A k \in S : k \in Nat /\ ~(k < least)
  BY <1>1, <1>3
<1>5. \A k \in S : least <= k
  BY <1>4
<1> QED  BY <1>5

(* Induction up to n, over a set of numbers. *)
LEMMA UpTo ==
    ASSUME NEW n \in Nat, NEW S, 0 \in S, \A i \in 1 .. n : i - 1 \in S => i \in S
    PROVE  \A i \in 0 .. n : i \in S
<1> DEFINE Bad == (0 .. n) \ S
<1>1. SUFFICES ASSUME Bad # {} PROVE FALSE
  OBVIOUS
<1>2. Bad \in SUBSET Nat
  OBVIOUS
<1>3. PICK least \in Bad : \A k \in Bad : least <= k
  <2> HIDE DEF Bad
  <2> QED  BY <1>1, <1>2, LeastOf
<1>4. least \in 1 .. n /\ least - 1 \notin Bad
  BY <1>3
<1> QED  BY <1>4

(* What is defined by recursion over 0 .. n exists.  A step is a function  *)
(* of the number and of the value before.                                  *)
IsRun(g, n, T, b, F) ==
    g \in [0 .. n -> T] /\ g[0] = b /\ \A i \in 1 .. n : g[i] = F[i][g[i - 1]]

IsStep(F, n, T) == F \in [1 .. n -> [T -> T]]

LEMMA Recursion ==
    ASSUME NEW n \in Nat, NEW T, NEW b \in T, NEW F, IsStep(F, n, T)
    PROVE  \E g : IsRun(g, n, T, b, F)
<1>0. F \in [1 .. n -> [T -> T]]
  BY DEF IsStep
<1> DEFINE Runs(k) == {g \in [0 .. k -> T] : g[0] = b /\ \A i \in 1 .. k : g[i] = F[i][g[i - 1]]}
           S == {k \in 0 .. n : Runs(k) # {}}
<1>1. 0 \in S
  <2>1. [i \in 0 .. 0 |-> b] \in Runs(0)
    OBVIOUS
  <2> HIDE DEF Runs
  <2> QED  BY <2>1
<1>2. ASSUME NEW k \in 1 .. n, k - 1 \in S PROVE k \in S
  <2>1. PICK g \in Runs(k - 1) : TRUE
    BY <1>2
  <2>2. g \in [0 .. k - 1 -> T] /\ g[0] = b /\ \A i \in 1 .. k - 1 : g[i] = F[i][g[i - 1]]
    BY <2>1
  <2> HIDE DEF Runs, S
  <2>3. /\ k \in 1 .. n /\ 0 \in 0 .. k /\ k \in 0 .. k /\ k - 1 \in 0 .. k - 1 /\ 0 # k
        /\ \A i \in 0 .. k : i = k \/ i \in 0 .. k - 1
        /\ \A i \in 0 .. k - 1 : i # k /\ i \in 0 .. k
        /\ \A i \in 1 .. k : i - 1 \in 0 .. k - 1 /\ i \in 0 .. k /\ (i = k \/ i \in 1 .. k - 1)
    OBVIOUS
  <2> DEFINE h == [i \in 0 .. k |-> IF i = k THEN F[k][g[k - 1]] ELSE g[i]]
  <2>4. F[k][g[k - 1]] \in T
    BY <1>0, <2>2, <2>3
  <2>5. h \in [0 .. k -> T]
    BY <2>2, <2>3, <2>4
  <2>6. h[0] = b /\ h[k] = F[k][g[k - 1]] /\ \A i \in 0 .. k - 1 : h[i] = g[i]
    BY <2>2, <2>3
  <2> HIDE DEF h
  <2>7. \A i \in 1 .. k : h[i] = F[i][h[i - 1]]
    BY <2>2, <2>3, <2>6
  <2>8. h \in Runs(k)
    BY <2>5, <2>6, <2>7 DEF Runs
  <2> QED  BY <2>8 DEF S
<1> HIDE DEF S
<1>3. n \in 0 .. n /\ \A i \in 1 .. n : i - 1 \in S => i \in S
  BY <1>2
<1>4. n \in S
  BY <1>1, <1>3, UpTo
<1> QED  BY <1>4 DEF S, Runs, IsRun
-----------------------------------------------------------------------------
(* Paths. *)

Sides == {"left", "right"}
Paths == Seq(Sides)

(* p leads to q or past it. *)
Ext(p, q) == Len(p) <= Len(q) /\ \A i \in 1 .. Len(p) : p[i] = q[i]

Below(D, p) == \E q \in D : Ext(p, q)

LEMMA PathTyped ==
    ASSUME NEW p \in Paths
    PROVE  Len(p) \in Nat /\ DOMAIN p = 1 .. Len(p) /\ \A i \in 1 .. Len(p) : p[i] \in Sides
  BY DEF Paths

LEMMA SamePath ==
    ASSUME NEW p \in Paths, NEW q \in Paths, Len(p) = Len(q), \A i \in 1 .. Len(p) : p[i] = q[i]
    PROVE  p = q
  BY DEF Paths

LEMMA AppendPath ==
    ASSUME NEW p \in Paths, NEW s \in Sides
    PROVE  /\ Append(p, s) \in Paths /\ Len(Append(p, s)) = Len(p) + 1
           /\ Append(p, s)[Len(p) + 1] = s
           /\ \A i \in 1 .. Len(p) : Append(p, s)[i] = p[i]
  BY DEF Paths

LEMMA OtherSide ==
    ASSUME NEW s \in Sides
    PROVE  Other(s) \in Sides /\ Other(s) # s /\ Other(Other(s)) = s /\ \A r \in Sides : r = s \/ r = Other(s)
  BY DEF Other, Sides

LEMMA PrefixExt ==
    ASSUME NEW p \in Paths, NEW q \in Paths
    PROVE  IsPrefix(p, q) <=> Ext(p, q)
<1>1. Len(p) \in Nat /\ Len(q) \in Nat
  BY PathTyped
<1>2. CASE Len(p) <= Len(q)
  <2> DEFINE a == SubSeq(p, 1, Len(p))
             z == SubSeq(q, 1, Len(p))
  <2>1. /\ a \in Paths /\ z \in Paths /\ Len(a) = Len(p) /\ Len(z) = Len(p)
        /\ \A i \in 1 .. Len(p) : a[i] = p[i] /\ z[i] = q[i]
    BY <1>1, <1>2 DEF Paths
  <2> HIDE DEF a, z
  <2>2. a = z <=> \A i \in 1 .. Len(p) : p[i] = q[i]
    BY <2>1, SamePath
  <2> QED  BY <1>2, <2>2 DEF IsPrefix, Ext, a, z
<1>3. CASE ~(Len(p) <= Len(q))
  BY <1>3 DEF IsPrefix, Ext
<1> QED  BY <1>2, <1>3

LEMMA ExtFacts ==
    ASSUME NEW p \in Paths, NEW q \in Paths
    PROVE  /\ Ext(p, p)
           /\ Ext(p, q) /\ Ext(q, p) => p = q
           /\ Ext(p, q) /\ Len(p) = Len(q) => p = q
           /\ \A r \in Paths : Ext(p, q) /\ Ext(q, r) => Ext(p, r)
           /\ \A r \in Paths : Ext(p, r) /\ Ext(q, r) => Ext(p, q) \/ Ext(q, p)
<1>1. Len(p) \in Nat /\ Len(q) \in Nat /\ \A r \in Paths : Len(r) \in Nat
  BY PathTyped
<1>2. Ext(p, p)
  BY <1>1 DEF Ext
<1>3. Ext(p, q) /\ Len(p) = Len(q) => p = q
  BY SamePath DEF Ext
<1>4. Ext(p, q) /\ Ext(q, p) => p = q
  BY <1>1, <1>3 DEF Ext
<1>5. ASSUME NEW r \in Paths, Ext(p, q), Ext(q, r) PROVE Ext(p, r)
  BY <1>1, <1>5 DEF Ext
<1>6. ASSUME NEW r \in Paths, Ext(p, r), Ext(q, r) PROVE Ext(p, q) \/ Ext(q, p)
  BY <1>1, <1>6 DEF Ext
<1> QED  BY <1>2, <1>3, <1>4, <1>5, <1>6

(* What leads past p leads into one of the two parts. *)
LEMMA ExtAppend ==
    ASSUME NEW p \in Paths, NEW q \in Paths
    PROVE  /\ \A s \in Sides : Ext(p, Append(p, s)) /\ ~Ext(Append(p, s), p)
           /\ \A s \in Sides : Ext(Append(p, s), q) => Ext(p, q) /\ p # q
           /\ Ext(p, q) /\ p # q => \E s \in Sides : Ext(Append(p, s), q)
           /\ \A s \in Sides : Ext(q, Append(p, s)) => q = Append(p, s) \/ Ext(q, p)
           /\ \A s, r \in Sides : Append(p, s) = Append(p, r) => s = r
<1>1. Len(p) \in Nat /\ Len(q) \in Nat /\ \A i \in 1 .. Len(q) : q[i] \in Sides
  BY PathTyped
<1>2. ASSUME NEW s \in Sides
      PROVE  /\ Ext(p, Append(p, s)) /\ ~Ext(Append(p, s), p)
             /\ Ext(Append(p, s), q) => Ext(p, q) /\ p # q
             /\ Ext(q, Append(p, s)) => q = Append(p, s) \/ Ext(q, p)
             /\ \A r \in Sides : Append(p, s) = Append(p, r) => s = r
  <2> DEFINE a == Append(p, s)
  <2>1. a \in Paths /\ Len(a) = Len(p) + 1 /\ a[Len(p) + 1] = s /\ \A i \in 1 .. Len(p) : a[i] = p[i]
    BY AppendPath
  <2>2. \A r \in Sides : a = Append(p, r) => s = r
    BY AppendPath
  <2> HIDE DEF a
  <2>3. Ext(p, a) /\ ~Ext(a, p) /\ (Ext(a, q) => Ext(p, q) /\ p # q)
    BY <1>1, <2>1 DEF Ext
  <2>4. ASSUME Ext(q, a) PROVE q = a \/ Ext(q, p)
    <3>1. CASE Len(q) = Len(p) + 1
      BY <2>1, <2>4, <3>1, ExtFacts
    <3>2. CASE Len(q) # Len(p) + 1
      BY <1>1, <2>1, <2>4, <3>2 DEF Ext
    <3> QED  BY <3>1, <3>2
  <2> QED  BY <2>2, <2>3, <2>4 DEF a
<1>3. ASSUME Ext(p, q), p # q PROVE \E s \in Sides : Ext(Append(p, s), q)
  <2>1. Len(p) + 1 \in 1 .. Len(q) /\ q[Len(p) + 1] \in Sides
    BY <1>1, <1>3, ExtFacts DEF Ext
  <2> DEFINE s == q[Len(p) + 1]
             a == Append(p, s)
  <2>2. s \in Sides
    BY <2>1
  <2>3. Len(a) = Len(p) + 1 /\ a[Len(p) + 1] = s /\ \A i \in 1 .. Len(p) : a[i] = p[i]
    BY <2>2, AppendPath
  <2>4. Ext(a, q)
    <3> HIDE DEF a
    <3> QED  BY <1>1, <1>3, <2>1, <2>3 DEF Ext
  <2> QED  BY <2>2, <2>4
<1> QED  BY <1>2, <1>3
-----------------------------------------------------------------------------
(* Trees: places of which none lies in another, each split with two parts. *)

Apart(D) == \A p, q \in D : Ext(p, q) => p = q

Full(D) == \A p \in Paths : Below(D, p) /\ p \notin D => \A s \in Sides : Below(D, Append(p, s))

Tree(D) == D \in SUBSET Paths /\ IsFiniteSet(D) /\ Apart(D) /\ Full(D)

LEMMA UnderExt ==
    ASSUME NEW tab, DOMAIN tab \in SUBSET Paths, NEW p \in Paths
    PROVE  \A q : q \in Under(tab, p) <=> q \in DOMAIN tab /\ Ext(p, q)
<1>1. \A q \in DOMAIN tab : IsPrefix(p, q) <=> Ext(p, q)
  BY PrefixExt
<1> QED  BY <1>1 DEF Under

(* The lengths of finitely many paths have a bound. *)
LEMMA Bounded ==
    ASSUME NEW D \in SUBSET Paths, IsFiniteSet(D)
    PROVE  \E n \in Nat : \A q \in D : Len(q) <= n
<1>1. PICK k \in Nat : ExistsSurjection(1 .. k, D)
  BY FS_NatSurjection
<1>2. PICK f \in Surjection(1 .. k, D) : TRUE
  BY <1>1 DEF ExistsSurjection
<1>3. f \in [1 .. k -> D] /\ \A q \in D : \E i \in 1 .. k : f[i] = q
  BY <1>2 DEF Surjection
<1> DEFINE S == {i \in 0 .. k : \E n \in Nat : \A j \in 1 .. i : Len(f[j]) <= n}
<1>4. 0 \in S
  OBVIOUS
<1>5. ASSUME NEW i \in 1 .. k, i - 1 \in S PROVE i \in S
  <2>1. PICK n \in Nat : \A j \in 1 .. i - 1 : Len(f[j]) <= n
    BY <1>5
  <2>2. Len(f[i]) \in Nat
    BY <1>3, PathTyped
  <2> DEFINE m == n + Len(f[i])
  <2>3. m \in Nat /\ n <= m /\ Len(f[i]) <= m
    BY <2>2
  <2>4. \A j \in 1 .. i : j = i \/ j \in 1 .. i - 1
    OBVIOUS
  <2>5. \A j \in 1 .. i : Len(f[j]) \in Nat
    BY <1>3, PathTyped
  <2> HIDE DEF m
  <2>6. \A j \in 1 .. i : Len(f[j]) <= m
    BY <2>1, <2>3, <2>4, <2>5
  <2>7. \E l \in Nat : \A j \in 1 .. i : Len(f[j]) <= l
    BY <2>3, <2>6
  <2>8. i \in 0 .. k
    OBVIOUS
  <2> QED  BY <2>7, <2>8
<1> HIDE DEF S
<1>6. k \in S
  <2>1. k \in 0 .. k
    OBVIOUS
  <2> QED  BY <1>4, <1>5, <2>1, UpTo
<1> QED  BY <1>3, <1>6 DEF S

(* q is the first place under p. *)
Leaf(D, p, q) == q \in D /\ Ext(p, q) /\ \A i \in Len(p) + 1 .. Len(q) : q[i] = "left"

LEMMA LeafOfLeft ==
    ASSUME NEW D \in SUBSET Paths, NEW p \in Paths, NEW q, Leaf(D, Append(p, "left"), q)
    PROVE  Leaf(D, p, q)
<1> DEFINE a == Append(p, "left")
<1>1. "left" \in Sides /\ q \in Paths /\ Len(p) \in Nat
  BY PathTyped DEF Leaf, Sides
<1>2. a \in Paths /\ Len(a) = Len(p) + 1 /\ a[Len(p) + 1] = "left"
  BY <1>1, AppendPath
<1>3. Ext(p, q)
  BY <1>1, ExtAppend DEF Leaf
<1>4. q \in D /\ Ext(a, q) /\ \A i \in Len(a) + 1 .. Len(q) : q[i] = "left"
  BY DEF Leaf
<1> HIDE DEF a
<1>5. Len(q) \in Nat /\ q[Len(p) + 1] = "left"
  BY <1>1, <1>2, <1>4, PathTyped DEF Ext
<1>6. \A i \in Len(p) + 1 .. Len(q) : q[i] = "left"
  BY <1>1, <1>2, <1>4, <1>5
<1> QED  BY <1>3, <1>4, <1>6 DEF Leaf

LEMMA LeafThere ==
    ASSUME NEW D, Tree(D), NEW p \in Paths, Below(D, p)
    PROVE  \E q : Leaf(D, p, q)
<1>1. PICK n \in Nat : \A q \in D : Len(q) <= n
  BY Bounded DEF Tree
<1> DEFINE Bad(r) == r \in Paths /\ Below(D, r) /\ \A q : ~Leaf(D, r, q)
           S == {k \in Nat : \E r \in Paths : Bad(r) /\ k = n - Len(r)}
<1>2. \A r \in Paths : Len(r) \in Nat
  BY PathTyped
<1>3. \A r \in Paths : Below(D, r) => n - Len(r) \in Nat
  <2>1. \A r \in Paths, q \in D : Ext(r, q) => Len(r) <= Len(q) /\ Len(q) \in Nat
    BY <1>2 DEF Ext, Tree
  <2> QED  BY <1>1, <1>2, <2>1 DEF Below
<1>4. SUFFICES ASSUME Bad(p) PROVE FALSE
  OBVIOUS
<1>5. S # {} /\ S \in SUBSET Nat
  BY <1>3, <1>4
<1>6. PICK least \in S : \A k \in S : least <= k
  <2> HIDE DEF S
  <2> QED  BY <1>5, LeastOf
<1>7. PICK r \in Paths : Bad(r) /\ least = n - Len(r)
  BY <1>6
<1>8. r \notin D
  BY <1>2, <1>7, ExtFacts DEF Leaf
<1> DEFINE a == Append(r, "left")
<1>9. a \in Paths /\ Len(a) = Len(r) + 1
  BY AppendPath DEF Sides
<1>10. Below(D, a)
  BY <1>7, <1>8 DEF Tree, Full, Sides
<1>11. \A q : ~Leaf(D, a, q)
  BY <1>7, LeafOfLeft DEF Tree
<1> HIDE DEF a
<1>12. n - Len(a) \in S
  BY <1>3, <1>9, <1>10, <1>11
<1> HIDE DEF S, Bad
<1> QED  BY <1>2, <1>6, <1>7, <1>9, <1>12

LEMMA LeafAlone ==
    ASSUME NEW D \in SUBSET Paths, Apart(D), NEW p \in Paths, NEW q, NEW r, Leaf(D, p, q), Leaf(D, p, r)
    PROVE  q = r
<1>1. /\ q \in D /\ r \in D /\ q \in Paths /\ r \in Paths
      /\ Len(p) \in Nat /\ Len(q) \in Nat /\ Len(r) \in Nat
  BY PathTyped DEF Leaf
<1>2. \A x, y \in {q, r} : Len(x) <= Len(y) => Ext(x, y)
  BY <1>1 DEF Leaf, Ext
<1>3. Ext(q, r) \/ Ext(r, q)
  BY <1>1, <1>2
<1> QED  BY <1>1, <1>3 DEF Apart

LEMMA FirstLeafIs ==
    ASSUME NEW tab, Tree(DOMAIN tab), NEW p \in Paths, Below(DOMAIN tab, p)
    PROVE  /\ Leaf(DOMAIN tab, p, FirstLeaf(tab, p))
           /\ \A q : Leaf(DOMAIN tab, p, q) => q = FirstLeaf(tab, p)
<1>1. DOMAIN tab \in SUBSET Paths /\ Apart(DOMAIN tab)
  BY DEF Tree
<1>2. \A q : q \in Under(tab, p) /\ (\A i \in Len(p) + 1 .. Len(q) : q[i] = "left") <=> Leaf(DOMAIN tab, p, q)
  BY <1>1, UnderExt DEF Leaf
<1>3. \E q \in Under(tab, p) : \A i \in Len(p) + 1 .. Len(q) : q[i] = "left"
  BY <1>2, LeafThere
<1>4. Leaf(DOMAIN tab, p, FirstLeaf(tab, p))
  BY <1>2, <1>3 DEF FirstLeaf
<1> QED  BY <1>1, <1>4, LeafAlone

LEMMA FirstLeafSame ==
    ASSUME NEW tab, NEW orig, DOMAIN tab = DOMAIN orig, NEW p
    PROVE  FirstLeaf(tab, p) = FirstLeaf(orig, p) /\ IsSplit(tab, p) = IsSplit(orig, p)
<1>1. Under(tab, p) = Under(orig, p)
  BY DEF Under
<1> QED  BY <1>1 DEF FirstLeaf, IsSplit
-----------------------------------------------------------------------------
(* New tabs, splits and closed panes leave trees. *)

LEMMA EmptyPath == <<>> \in Paths /\ Len(<<>>) = 0 /\ \A p \in Paths : Ext(<<>>, p) /\ (Ext(p, <<>>) => p = <<>>)
<1>1. <<>> \in Paths /\ Len(<<>>) = 0
  BY DEF Paths
<1>2. \A p \in Paths : Len(p) \in Nat
  BY PathTyped
<1>3. ASSUME NEW p \in Paths, Ext(p, <<>>) PROVE p = <<>>
  BY <1>1, <1>2, <1>3, ExtFacts DEF Ext
<1> QED  BY <1>1, <1>2, <1>3 DEF Ext

LEMMA SingleTree == ASSUME NEW x PROVE Single(x) \in [{<<>>} -> {x}] /\ Tree({<<>>})
<1>1. Single(x) \in [{<<>>} -> {x}]
  BY DEF Single
<1>2. IsFiniteSet({<<>>}) /\ {<<>>} \in SUBSET Paths /\ Apart({<<>>})
  BY FS_Singleton, EmptyPath DEF Apart
<1>3. Full({<<>>})
  BY EmptyPath DEF Full, Below
<1> QED  BY <1>1, <1>2, <1>3 DEF Tree

LEMMA EmptyTree == EmptyTab = <<>> /\ DOMAIN EmptyTab = {} /\ Tree({})
<1>1. Tree({})
  BY FS_EmptySet DEF Tree, Apart, Full, Below
<1> QED  BY <1>1 DEF EmptyTab

SplitPlaces(D, p) == (D \ {p}) \cup {Append(p, s) : s \in Sides}

LEMMA SplitPlace ==
    ASSUME NEW D, Tree(D), NEW p \in D
    PROVE  /\ p \in Paths
           /\ \A s \in Sides : Append(p, s) \in Paths /\ Append(p, s) \notin D
           /\ Tree(SplitPlaces(D, p))
<1>1. D \in SUBSET Paths /\ IsFiniteSet(D) /\ Apart(D) /\ Full(D) /\ p \in Paths
  BY DEF Tree
<1>2. \A s \in Sides : Append(p, s) \in Paths
  BY <1>1, AppendPath
<1>3. \A s \in Sides : Ext(p, Append(p, s)) /\ ~Ext(Append(p, s), p)
  BY <1>1, ExtAppend
<1>4. \A s \in Sides : Append(p, s) \notin D
  BY <1>1, <1>3 DEF Apart
<1> DEFINE E == SplitPlaces(D, p)
<1>5. \A q : q \in E <=> (q \in D /\ q # p) \/ \E s \in Sides : q = Append(p, s)
  BY DEF SplitPlaces
<1>6. E \in SUBSET Paths
  BY <1>1, <1>2, <1>5
<1>7. IsFiniteSet(E)
  <2>1. IsFiniteSet(D \ {p})
    BY <1>1, FS_RemoveElement
  <2> DEFINE F == D \ {p}
             G == F \cup {Append(p, "left")}
             H == G \cup {Append(p, "right")}
  <2>2. E = H
    BY DEF SplitPlaces, Sides
  <2> HIDE DEF E, F
  <2>3. IsFiniteSet(G)
    BY <2>1, FS_AddElement DEF F
  <2> HIDE DEF G
  <2>4. IsFiniteSet(H)
    BY <2>3, FS_AddElement
  <2> QED  BY <2>2, <2>4
<1> HIDE DEF E
<1>8. Apart(E)
  <2> SUFFICES ASSUME NEW q \in E, NEW r \in E, Ext(q, r) PROVE q = r
    BY DEF Apart
  <2>1. q \in Paths /\ r \in Paths
    BY <1>6
  <2>2. CASE q \in D /\ q # p
    <3>1. CASE r \in D
      BY <1>1, <2>2, <3>1 DEF Apart
    <3>2. CASE r \notin D
      <4>1. PICK s \in Sides : r = Append(p, s)
        BY <1>5, <3>2
      <4>2. q = r \/ Ext(q, p)
        BY <1>1, <2>1, <4>1, ExtAppend
      <4> QED  BY <1>1, <2>2, <4>2 DEF Apart
    <3> QED  BY <3>1, <3>2
  <2>3. CASE ~(q \in D /\ q # p)
    <3>1. PICK s \in Sides : q = Append(p, s)
      BY <1>5, <2>3
    <3>2. Ext(p, r) /\ p # r
      BY <1>1, <2>1, <3>1, ExtAppend
    <3>3. r \notin D
      BY <1>1, <3>2 DEF Apart
    <3>4. PICK e \in Sides : r = Append(p, e)
      BY <1>5, <3>3
    <3>5. ~Ext(q, p)
      BY <1>3, <3>1
    <3> QED  BY <1>1, <2>1, <3>4, <3>5, ExtAppend
  <2> QED  BY <2>2, <2>3
<1>9. Full(E)
  <2> SUFFICES ASSUME NEW q \in Paths, Below(E, q), q \notin E, NEW s \in Sides PROVE Below(E, Append(q, s))
    BY DEF Full
  <2>1. PICK r \in E : Ext(q, r)
    BY DEF Below
  <2>2. r \in Paths /\ Append(q, s) \in Paths
    BY <1>6, AppendPath
  <2>3. CASE q = p
    <3>1. Ext(Append(q, s), Append(q, s)) /\ Append(q, s) \in E
      BY <1>5, <2>2, <2>3, ExtFacts
    <3> QED  BY <3>1 DEF Below
  <2>4. CASE q # p
    <3>1. Below(D, q)
      <4>1. CASE r \in D
        BY <2>1, <4>1 DEF Below
      <4>2. CASE r \notin D
        <5>1. PICK e \in Sides : r = Append(p, e)
          BY <1>5, <4>2
        <5>2. Ext(q, p)
          BY <1>1, <2>1, <5>1, ExtAppend
        <5> QED  BY <5>2 DEF Below
      <4> QED  BY <4>1, <4>2
    <3>2. q \notin D
      BY <1>5, <2>4
    <3>3. PICK x \in D : Ext(Append(q, s), x)
      BY <1>1, <3>1, <3>2 DEF Full, Below
    <3>4. CASE x # p
      BY <1>5, <3>3, <3>4 DEF Below
    <3>5. CASE x = p
      <4>1. "left" \in Sides
        BY DEF Sides
      <4>2. Append(p, "left") \in E /\ Append(p, "left") \in Paths /\ Ext(p, Append(p, "left"))
        BY <1>2, <1>3, <1>5, <4>1
      <4>3. Ext(Append(q, s), Append(p, "left"))
        BY <1>1, <2>2, <3>3, <3>5, <4>2, ExtFacts
      <4> QED  BY <4>2, <4>3 DEF Below
    <3> QED  BY <3>4, <3>5
  <2> QED  BY <2>3, <2>4
<1>10. Tree(E)
  BY <1>6, <1>7, <1>8, <1>9 DEF Tree
<1> QED  BY <1>1, <1>2, <1>4, <1>10 DEF E

LEMMA SplitTabIs ==
    ASSUME NEW D, Tree(D), NEW T, NEW tab \in [D -> T], NEW p \in D, NEW side \in Sides, NEW x \in T
    PROVE  /\ SplitTab(tab, p, side, x) \in [SplitPlaces(D, p) -> T]
           /\ Tree(SplitPlaces(D, p))
           /\ SplitTab(tab, p, side, x)[Append(p, side)] = x
           /\ SplitTab(tab, p, side, x)[Append(p, Other(side))] = tab[p]
           /\ \A q \in D \ {p} : SplitTab(tab, p, side, x)[q] = tab[q]
<1> DEFINE old == Append(p, Other(side))
           new == Append(p, side)
<1>1. Other(side) \in Sides /\ Other(side) # side /\ \A r \in Sides : r = side \/ r = Other(side)
  BY OtherSide
<1>2. /\ p \in Paths /\ Tree(SplitPlaces(D, p)) /\ \A s \in Sides : Append(p, s) \notin D
  BY SplitPlace
<1>3. SplitPlaces(D, p) = (D \ {p}) \cup {old, new}
  BY <1>1 DEF SplitPlaces
<1>4. old # new /\ old \notin D /\ new \notin D
  BY <1>1, <1>2, ExtAppend
<1>5. SplitTab(tab, p, side, x) =
        [q \in (D \ {p}) \cup {old, new} |-> IF q = new THEN x ELSE IF q = old THEN tab[p] ELSE tab[q]]
  BY DEF SplitTab
<1> HIDE DEF old, new
<1>6. SplitTab(tab, p, side, x) \in [(D \ {p}) \cup {old, new} -> T]
  BY <1>5
<1>7. /\ SplitTab(tab, p, side, x)[new] = x /\ SplitTab(tab, p, side, x)[old] = tab[p]
      /\ \A q \in D \ {p} : SplitTab(tab, p, side, x)[q] = tab[q]
  BY <1>4, <1>5
<1> QED  BY <1>2, <1>3, <1>6, <1>7 DEF old, new

(* What RemoveAt and InsertAt do to a path. *)
LEMMA RemoveAtPath ==
    ASSUME NEW s \in Paths, NEW from \in 1 .. Len(s)
    PROVE  /\ RemoveAt(s, from) \in Paths /\ Len(RemoveAt(s, from)) = Len(s) - 1
           /\ \A i \in 1 .. Len(s) - 1 : RemoveAt(s, from)[i] = IF i < from THEN s[i] ELSE s[i + 1]
<1> DEFINE n == Len(s)
           a == SubSeq(s, 1, from - 1)
           z == SubSeq(s, from + 1, n)
           r == a \o z
<1>1. n \in Nat /\ \A i \in 1 .. n : s[i] \in Sides
  BY PathTyped
<1>2. RemoveAt(s, from) = r
  BY DEF RemoveAt
<1>3. a \in Paths /\ Len(a) = from - 1 /\ \A i \in 1 .. from - 1 : a[i] = s[i]
  BY <1>1, SubSeqProperties DEF Paths
<1>4. z \in Paths /\ Len(z) = n - from /\ \A i \in 1 .. n - from : z[i] = s[from + 1 + i - 1]
  BY <1>1, SubSeqProperties DEF Paths
<1> HIDE DEF a, z
<1>5. /\ r \in Paths /\ Len(r) = Len(a) + Len(z)
      /\ \A i \in 1 .. Len(a) + Len(z) : r[i] = IF i <= Len(a) THEN a[i] ELSE z[i - Len(a)]
  BY <1>3, <1>4, ConcatProperties DEF Paths
<1> HIDE DEF r, n
<1>6. from \in 1 .. n
  BY DEF n
<1>7. Len(r) = n - 1
  BY <1>1, <1>3, <1>4, <1>5, <1>6
<1>8. ASSUME NEW i \in 1 .. n - 1 PROVE r[i] = IF i < from THEN s[i] ELSE s[i + 1]
  <2>1. r[i] = IF i < from THEN a[i] ELSE z[i - (from - 1)]
    BY <1>1, <1>3, <1>4, <1>5, <1>6
  <2>2. ~(i < from) => z[i - (from - 1)] = s[i + 1]
    <3>1. ~(i < from) => i - (from - 1) \in 1 .. n - from /\ from + 1 + (i - (from - 1)) - 1 = i + 1
      BY <1>1, <1>6
    <3> QED  BY <1>4, <3>1
  <2> QED  BY <1>1, <1>3, <1>6, <2>1, <2>2
<1> QED  BY <1>2, <1>5, <1>7, <1>8 DEF n

LEMMA InsertAtPath ==
    ASSUME NEW s \in Paths, NEW pos \in 1 .. Len(s) + 1, NEW e \in Sides
    PROVE  /\ InsertAt(s, pos, e) \in Paths /\ Len(InsertAt(s, pos, e)) = Len(s) + 1
           /\ \A i \in 1 .. Len(s) + 1 :
                InsertAt(s, pos, e)[i] = IF i < pos THEN s[i] ELSE IF i = pos THEN e ELSE s[i - 1]
<1> DEFINE n == Len(s)
           a == SubSeq(s, 1, pos - 1)
           z == SubSeq(s, pos, n)
           r == (a \o <<e>>) \o z
<1>1. n \in Nat /\ \A i \in 1 .. n : s[i] \in Sides
  BY PathTyped
<1>2. InsertAt(s, pos, e) = r
  BY DEF InsertAt
<1>3. a \in Paths /\ Len(a) = pos - 1 /\ \A i \in 1 .. pos - 1 : a[i] = s[i]
  BY <1>1, SubSeqProperties DEF Paths
<1>4. z \in Paths /\ Len(z) = n + 1 - pos /\ \A i \in 1 .. n + 1 - pos : z[i] = s[pos + i - 1]
  BY <1>1, SubSeqProperties DEF Paths
<1>5. <<e>> \in Paths /\ Len(<<e>>) = 1 /\ <<e>>[1] = e
  BY DEF Paths
<1> HIDE DEF a, z
<1> DEFINE b == a \o <<e>>
<1>6. b \in Paths /\ Len(b) = pos /\ \A i \in 1 .. pos : b[i] = IF i < pos THEN s[i] ELSE e
  <2>1. /\ b \in Paths /\ Len(b) = Len(a) + Len(<<e>>)
        /\ \A i \in 1 .. Len(a) + Len(<<e>>) : b[i] = IF i <= Len(a) THEN a[i] ELSE <<e>>[i - Len(a)]
    BY <1>3, <1>5, ConcatProperties DEF Paths
  <2> HIDE DEF b
  <2> QED  BY <1>1, <1>3, <1>5, <2>1
<1> HIDE DEF b
<1>7. /\ b \o z \in Paths /\ Len(b \o z) = Len(b) + Len(z)
      /\ \A i \in 1 .. Len(b) + Len(z) : (b \o z)[i] = IF i <= Len(b) THEN b[i] ELSE z[i - Len(b)]
  BY <1>4, <1>6, ConcatProperties DEF Paths
<1>8. r = b \o z
  BY DEF b
<1> HIDE DEF r, n
<1>9. Len(r) = n + 1
  BY <1>1, <1>4, <1>6, <1>7, <1>8
<1>10. ASSUME NEW i \in 1 .. n + 1
       PROVE  r[i] = IF i < pos THEN s[i] ELSE IF i = pos THEN e ELSE s[i - 1]
  <2>0. pos \in 1 .. n + 1
    BY DEF n
  <2>1. r[i] = IF i <= pos THEN b[i] ELSE z[i - pos]
    <3>1. i \in 1 .. Len(b) + Len(z) /\ Len(b) = pos
      BY <1>1, <1>4, <1>6, <2>0
    <3> QED  BY <1>7, <1>8, <3>1
  <2>2. i > pos => z[i - pos] = s[i - 1]
    <3>1. i > pos => i - pos \in 1 .. n + 1 - pos /\ pos + (i - pos) - 1 = i - 1
      BY <1>1, <2>0
    <3> QED  BY <1>4, <3>1
  <2> QED  BY <1>1, <1>6, <2>0, <2>1, <2>2
<1> QED  BY <1>2, <1>7, <1>8, <1>9, <1>10 DEF n

(* Paths past up, and the paths with one more step after up. *)
Lift(up, o, q) == InsertAt(q, Len(up) + 1, o)
Drop(up, q) == RemoveAt(q, Len(up) + 1)

LEMMA LiftIs ==
    ASSUME NEW up \in Paths, NEW o \in Sides, NEW q \in Paths, Ext(up, q)
    PROVE  /\ Lift(up, o, q) \in Paths /\ Len(Lift(up, o, q)) = Len(q) + 1
           /\ \A i \in 1 .. Len(q) + 1 :
                Lift(up, o, q)[i] = IF i <= Len(up) THEN q[i] ELSE IF i = Len(up) + 1 THEN o ELSE q[i - 1]
<1>1. Len(up) \in Nat /\ Len(q) \in Nat
  BY PathTyped
<1>2. Len(up) <= Len(q)
  BY DEF Ext
<1> DEFINE n == Len(up) + 1
           r == InsertAt(q, n, o)
<1>3. n \in 1 .. Len(q) + 1
  BY <1>1, <1>2
<1>4. /\ r \in Paths /\ Len(r) = Len(q) + 1
      /\ \A i \in 1 .. Len(q) + 1 : r[i] = IF i < n THEN q[i] ELSE IF i = n THEN o ELSE q[i - 1]
  <2> HIDE DEF n
  <2> QED  BY <1>3, InsertAtPath
<1>5. Lift(up, o, q) = r
  BY DEF Lift
<1> HIDE DEF r
<1> QED  BY <1>1, <1>4, <1>5

LEMMA DropIs ==
    ASSUME NEW up \in Paths, NEW o \in Sides, NEW y \in Paths, Ext(Append(up, o), y)
    PROVE  /\ Drop(up, y) \in Paths /\ Len(Drop(up, y)) = Len(y) - 1 /\ Len(y) > Len(up)
           /\ Ext(up, y) /\ y[Len(up) + 1] = o
           /\ \A i \in 1 .. Len(y) - 1 : Drop(up, y)[i] = IF i <= Len(up) THEN y[i] ELSE y[i + 1]
<1>1. Len(up) \in Nat /\ Len(y) \in Nat
  BY PathTyped
<1>2. Append(up, o) \in Paths /\ Len(Append(up, o)) = Len(up) + 1 /\ Append(up, o)[Len(up) + 1] = o
  BY AppendPath
<1>3. Ext(up, y) /\ Len(up) + 1 <= Len(y) /\ y[Len(up) + 1] = o
  <2>1. Ext(up, y)
    BY ExtAppend
  <2> HIDE DEF Paths
  <2> QED  BY <1>1, <1>2, <2>1 DEF Ext
<1> DEFINE n == Len(up) + 1
           r == RemoveAt(y, n)
<1>4. n \in 1 .. Len(y)
  BY <1>1, <1>3
<1>5. /\ r \in Paths /\ Len(r) = Len(y) - 1
      /\ \A i \in 1 .. Len(y) - 1 : r[i] = IF i < n THEN y[i] ELSE y[i + 1]
  <2> HIDE DEF n
  <2> QED  BY <1>4, RemoveAtPath
<1>6. Drop(up, y) = r
  BY DEF Drop
<1> HIDE DEF r
<1> QED  BY <1>1, <1>3, <1>5, <1>6

LEMMA LiftExt ==
    ASSUME NEW up \in Paths, NEW o \in Sides, NEW q \in Paths, Ext(up, q)
    PROVE  /\ Ext(Append(up, o), Lift(up, o, q))
           /\ Drop(up, Lift(up, o, q)) = q
<1> DEFINE r == Lift(up, o, q)
           a == Append(up, o)
<1>1. /\ r \in Paths /\ Len(r) = Len(q) + 1
      /\ \A i \in 1 .. Len(q) + 1 : r[i] = IF i <= Len(up) THEN q[i] ELSE IF i = Len(up) + 1 THEN o ELSE q[i - 1]
  BY LiftIs
<1>2. a \in Paths /\ Len(a) = Len(up) + 1 /\ a[Len(up) + 1] = o /\ \A i \in 1 .. Len(up) : a[i] = up[i]
  BY AppendPath
<1>3. Len(up) \in Nat /\ Len(q) \in Nat /\ Len(up) <= Len(q) /\ \A i \in 1 .. Len(up) : up[i] = q[i]
  BY PathTyped DEF Ext
<1> HIDE DEF r, a
<1>4. Ext(a, r)
  BY <1>1, <1>2, <1>3 DEF Ext
<1>5. /\ Drop(up, r) \in Paths /\ Len(Drop(up, r)) = Len(r) - 1
      /\ \A i \in 1 .. Len(r) - 1 : Drop(up, r)[i] = IF i <= Len(up) THEN r[i] ELSE r[i + 1]
  BY <1>1, <1>4, DropIs DEF a
<1>6. Len(Drop(up, r)) = Len(q)
  BY <1>1, <1>3, <1>5
<1>7. \A i \in 1 .. Len(q) : Drop(up, r)[i] = q[i]
  <2> TAKE i \in 1 .. Len(q)
  <2>1. i \in Int /\ i \in 1 .. Len(r) - 1 /\ i \in 1 .. Len(q) + 1 /\ i + 1 \in 1 .. Len(q) + 1 /\ (i + 1) - 1 = i
    BY <1>1, <1>3
  <2> QED  BY <1>1, <1>3, <1>5, <2>1, SMTT(30)
<1>8. Drop(up, r) = q
  BY <1>5, <1>6, <1>7, SamePath
<1> QED  BY <1>4, <1>8 DEF r, a

LEMMA DropExt ==
    ASSUME NEW up \in Paths, NEW o \in Sides, NEW y \in Paths, Ext(Append(up, o), y)
    PROVE  /\ Ext(up, Drop(up, y))
           /\ Lift(up, o, Drop(up, y)) = y
<1> DEFINE r == Drop(up, y)
<1>1. /\ r \in Paths /\ Len(r) = Len(y) - 1 /\ Len(y) > Len(up)
      /\ Ext(up, y) /\ y[Len(up) + 1] = o
      /\ \A i \in 1 .. Len(y) - 1 : r[i] = IF i <= Len(up) THEN y[i] ELSE y[i + 1]
  BY DropIs
<1>2. Len(up) \in Nat /\ Len(y) \in Nat /\ \A i \in 1 .. Len(up) : up[i] = y[i]
  BY <1>1, PathTyped DEF Ext
<1> HIDE DEF r
<1>3. Ext(up, r)
  BY <1>1, <1>2 DEF Ext
<1> DEFINE z == Lift(up, o, r)
<1>4. /\ z \in Paths /\ Len(z) = Len(r) + 1
      /\ \A i \in 1 .. Len(r) + 1 : z[i] = IF i <= Len(up) THEN r[i] ELSE IF i = Len(up) + 1 THEN o ELSE r[i - 1]
  BY <1>1, <1>3, LiftIs
<1> HIDE DEF z
<1>5. Len(z) = Len(y)
  BY <1>1, <1>2, <1>4
<1>6. \A i \in 1 .. Len(z) : z[i] = y[i]
  <2> TAKE i \in 1 .. Len(z)
  <2>1. i \in Int /\ i \in 1 .. Len(r) + 1 /\ i <= Len(y) /\ (i - 1) + 1 = i
    BY <1>1, <1>2, <1>4
  <2>2. CASE i <= Len(up)
    <3>1. i \in 1 .. Len(y) - 1
      BY <1>1, <1>2, <2>1, <2>2
    <3> QED  BY <1>1, <1>4, <2>1, <2>2, <3>1
  <2>3. CASE i = Len(up) + 1
    BY <1>1, <1>2, <1>4, <2>1, <2>3
  <2>4. CASE i > Len(up) + 1
    <3>1. i - 1 \in 1 .. Len(y) - 1 /\ ~(i - 1 <= Len(up)) /\ ~(i <= Len(up)) /\ i # Len(up) + 1
      BY <1>1, <1>2, <2>1, <2>4
    <3> QED  BY <1>1, <1>4, <2>1, <3>1
  <2> QED  BY <1>2, <2>1, <2>2, <2>3, <2>4
<1>7. z = y
  BY <1>4, <1>5, <1>6, SamePath
<1> QED  BY <1>3, <1>7 DEF r, z

LEMMA LiftKeepsExt ==
    ASSUME NEW up \in Paths, NEW o \in Sides, NEW p \in Paths, NEW q \in Paths, Ext(up, p), Ext(up, q)
    PROVE  Ext(p, q) <=> Ext(Lift(up, o, p), Lift(up, o, q))
<1> DEFINE x == Lift(up, o, p)
           y == Lift(up, o, q)
           m == Len(up)
<1>1. /\ x \in Paths /\ Len(x) = Len(p) + 1
      /\ \A i \in 1 .. Len(p) + 1 : x[i] = IF i <= m THEN p[i] ELSE IF i = m + 1 THEN o ELSE p[i - 1]
  BY LiftIs
<1>2. /\ y \in Paths /\ Len(y) = Len(q) + 1
      /\ \A i \in 1 .. Len(q) + 1 : y[i] = IF i <= m THEN q[i] ELSE IF i = m + 1 THEN o ELSE q[i - 1]
  BY LiftIs
<1>3. /\ m \in Nat /\ Len(p) \in Nat /\ Len(q) \in Nat /\ m <= Len(p) /\ m <= Len(q)
      /\ \A i \in 1 .. m : p[i] = q[i]
  BY PathTyped DEF Ext
<1> HIDE DEF x, y, m
<1>4. ASSUME Ext(p, q) PROVE Ext(x, y)
  <2>1. Len(p) <= Len(q) /\ \A i \in 1 .. Len(p) : p[i] = q[i]
    BY <1>4 DEF Ext
  <2>2. ASSUME NEW i \in 1 .. Len(p) + 1 PROVE x[i] = y[i]
    <3>1. i \in 1 .. Len(q) + 1
      BY <1>3, <2>1
    <3>2. CASE i <= m
      BY <1>1, <1>2, <1>3, <3>1, <3>2
    <3>3. CASE i = m + 1
      BY <1>1, <1>2, <1>3, <3>1, <3>3
    <3>4. CASE i > m + 1
      <4>1. i - 1 \in 1 .. Len(p) /\ ~(i <= m) /\ i # m + 1
        BY <1>3, <3>4
      <4> QED  BY <1>1, <1>2, <2>1, <3>1, <4>1
    <3> QED  BY <1>3, <3>2, <3>3, <3>4
  <2> QED  BY <1>1, <1>2, <1>3, <2>1, <2>2 DEF Ext
<1>5. ASSUME Ext(x, y) PROVE Ext(p, q)
  <2>1. Len(p) <= Len(q) /\ \A i \in 1 .. Len(p) + 1 : x[i] = y[i]
    BY <1>1, <1>2, <1>3, <1>5 DEF Ext
  <2>2. ASSUME NEW i \in 1 .. Len(p) PROVE p[i] = q[i]
    <3>1. CASE i <= m
      BY <1>3, <3>1
    <3>2. CASE i > m
      <4>1. /\ i + 1 \in 1 .. Len(p) + 1 /\ i + 1 \in 1 .. Len(q) + 1 /\ (i + 1) - 1 = i
            /\ ~(i + 1 <= m) /\ i + 1 # m + 1
        BY <1>3, <2>1, <3>2
      <4> QED  BY <1>1, <1>2, <2>1, <4>1
    <3> QED  BY <1>3, <3>1, <3>2
  <2> QED  BY <2>1, <2>2 DEF Ext
<1> QED  BY <1>4, <1>5 DEF x, y

LEMMA LiftAppend ==
    ASSUME NEW up \in Paths, NEW o \in Sides, NEW p \in Paths, Ext(up, p), NEW s \in Sides
    PROVE  Ext(up, Append(p, s)) /\ Lift(up, o, Append(p, s)) = Append(Lift(up, o, p), s)
<1> DEFINE a == Append(p, s)
           m == Len(up)
           x == Lift(up, o, p)
           y == Lift(up, o, a)
           z == Append(x, s)
<1>1. a \in Paths /\ Len(a) = Len(p) + 1 /\ a[Len(p) + 1] = s /\ \A i \in 1 .. Len(p) : a[i] = p[i]
  BY AppendPath
<1>2. Ext(up, a)
  BY <1>1, ExtAppend, ExtFacts
<1>3. /\ x \in Paths /\ Len(x) = Len(p) + 1
      /\ \A i \in 1 .. Len(p) + 1 : x[i] = IF i <= m THEN p[i] ELSE IF i = m + 1 THEN o ELSE p[i - 1]
  BY LiftIs
<1> HIDE DEF a, x
<1>4. /\ y \in Paths /\ Len(y) = Len(a) + 1
      /\ \A i \in 1 .. Len(a) + 1 : y[i] = IF i <= m THEN a[i] ELSE IF i = m + 1 THEN o ELSE a[i - 1]
  BY <1>1, <1>2, LiftIs
<1>5. z \in Paths /\ Len(z) = Len(x) + 1 /\ z[Len(x) + 1] = s /\ \A i \in 1 .. Len(x) : z[i] = x[i]
  BY <1>3, AppendPath
<1>6. m \in Nat /\ Len(p) \in Nat /\ m <= Len(p)
  BY PathTyped DEF Ext
<1> HIDE DEF y, z, m
<1>7. \A i \in 1 .. Len(y) : y[i] = z[i]
  <2> TAKE i \in 1 .. Len(y)
  <2>1. i \in Int /\ 1 <= i /\ i <= Len(p) + 2 /\ i \in 1 .. Len(a) + 1
    BY <1>1, <1>4, <1>6
  <2>2. CASE i = Len(p) + 2
    <3>1. i = Len(x) + 1 /\ ~(i <= m) /\ i # m + 1 /\ i - 1 = Len(p) + 1
      BY <1>3, <1>6, <2>1, <2>2
    <3> QED  BY <1>1, <1>4, <1>5, <2>1, <3>1
  <2>3. CASE i <= Len(p) + 1
    <3>1. i \in 1 .. Len(x) /\ i \in 1 .. Len(p) + 1
      BY <1>3, <1>6, <2>1, <2>3
    <3>2. z[i] = x[i]
      BY <1>5, <3>1
    <3>3. CASE i <= m
      BY <1>1, <1>3, <1>4, <1>6, <2>1, <3>1, <3>2, <3>3
    <3>4. CASE i = m + 1
      BY <1>3, <1>4, <1>6, <2>1, <3>1, <3>2, <3>4
    <3>5. CASE i > m + 1
      <4>1. i - 1 \in 1 .. Len(p) /\ ~(i <= m) /\ i # m + 1
        BY <1>6, <2>1, <2>3, <3>5
      <4> QED  BY <1>1, <1>3, <1>4, <2>1, <3>1, <3>2, <4>1
    <3> QED  BY <1>6, <2>1, <3>3, <3>4, <3>5
  <2> QED  BY <1>6, <2>1, <2>2, <2>3
<1>8. Len(y) = Len(z)
  BY <1>1, <1>3, <1>4, <1>5
<1>9. y = z
  BY <1>4, <1>5, <1>7, <1>8, SamePath
<1> QED  BY <1>2, <1>9 DEF a, x, y, z

(* When a pane closes, what was past its sibling moves up. *)
Closed(D, up, o) == {q \in Paths : IF Ext(up, q) THEN Lift(up, o, q) \in D ELSE q \in D}

LEMMA ClosedTree ==
    ASSUME NEW D, Tree(D), NEW up \in Paths, NEW side \in Sides, Append(up, side) \in D
    PROVE  Apart(Closed(D, up, Other(side))) /\ Full(Closed(D, up, Other(side)))
<1> DEFINE o == Other(side)
           place == Append(up, side)
           twin == Append(up, o)
           E == Closed(D, up, o)
           L(q) == Lift(up, o, q)
<1>1. o \in Sides /\ o # side /\ place \in Paths /\ twin \in Paths
  BY OtherSide, AppendPath
<1>2. D \in SUBSET Paths /\ Apart(D) /\ Full(D)
  BY DEF Tree
<1>3. \A q : q \in E <=> q \in Paths /\ IF Ext(up, q) THEN L(q) \in D ELSE q \in D
  BY DEF Closed
<1>4. \A q \in Paths : Ext(up, q) => L(q) \in Paths /\ Ext(twin, L(q)) /\ Drop(up, L(q)) = q
  BY <1>1, LiftIs, LiftExt
<1>5. \A y \in Paths : Ext(twin, y) => Drop(up, y) \in Paths /\ Ext(up, Drop(up, y)) /\ L(Drop(up, y)) = y
  BY <1>1, DropIs, DropExt
<1>6. \A p, q \in Paths : Ext(up, p) /\ Ext(up, q) => (Ext(p, q) <=> Ext(L(p), L(q)))
  BY <1>1, LiftKeepsExt
<1>7. \A p \in Paths, s \in Sides : Ext(up, p) => Ext(up, Append(p, s)) /\ L(Append(p, s)) = Append(L(p), s)
  BY <1>1, LiftAppend
<1>8. Ext(up, place) /\ ~Ext(place, up) /\ Ext(up, twin) /\ up # place
  BY <1>1, ExtAppend
<1>9. place \in D
  OBVIOUS
<1>10. \A p \in Paths : Ext(p, up) => Ext(p, place) /\ (p = place => FALSE)
  BY <1>1, <1>8, ExtFacts
<1> HIDE DEF o, place, twin, E, L
<1>11. Apart(E)
  <2> SUFFICES ASSUME NEW p \in E, NEW q \in E, Ext(p, q) PROVE p = q
    BY DEF Apart
  <2>1. p \in Paths /\ q \in Paths
    BY <1>3
  <2>2. CASE Ext(up, p)
    <3>1. Ext(up, q)
      BY <2>1, <2>2, ExtFacts
    <3>2. L(p) \in D /\ L(q) \in D /\ Ext(L(p), L(q))
      BY <1>3, <1>6, <2>1, <2>2, <3>1
    <3>3. L(p) = L(q)
      BY <1>2, <3>2 DEF Apart
    <3> QED  BY <1>4, <2>1, <2>2, <3>1, <3>3
  <2>3. CASE ~Ext(up, p) /\ Ext(up, q)
    <3>1. p \in D /\ Ext(p, up)
      BY <1>3, <2>1, <2>3, ExtFacts
    <3>2. Ext(p, place) /\ p # place
      BY <1>10, <2>1, <3>1
    <3> QED  BY <1>2, <1>9, <3>1, <3>2 DEF Apart
  <2>4. CASE ~Ext(up, p) /\ ~Ext(up, q)
    BY <1>2, <1>3, <2>4 DEF Apart
  <2> QED  BY <2>2, <2>3, <2>4
<1>12. Full(E)
  <2> SUFFICES ASSUME NEW p \in Paths, Below(E, p), p \notin E, NEW s \in Sides PROVE Below(E, Append(p, s))
    BY DEF Full
  <2>1. PICK q \in E : Ext(p, q)
    BY DEF Below
  <2>2. q \in Paths /\ Append(p, s) \in Paths
    BY <1>3, AppendPath
  <2>3. CASE Ext(up, p)
    <3>1. Ext(up, q)
      BY <2>1, <2>2, <2>3, ExtFacts
    <3>2. L(p) \in Paths /\ L(q) \in D /\ Ext(L(p), L(q)) /\ L(p) \notin D
      BY <1>3, <1>4, <1>6, <2>1, <2>2, <2>3, <3>1
    <3>3. Below(D, L(p))
      BY <3>2 DEF Below
    <3>4. PICK y \in D : Ext(Append(L(p), s), y)
      BY <1>2, <3>2, <3>3 DEF Full, Below
    <3>5. Ext(up, Append(p, s)) /\ L(Append(p, s)) = Append(L(p), s)
      BY <1>7, <2>3
    <3>6. y \in Paths /\ Ext(twin, y)
      <4>1. y \in Paths /\ L(Append(p, s)) \in Paths /\ Ext(twin, L(Append(p, s)))
        BY <1>2, <1>4, <2>2, <3>5
      <4> QED  BY <1>1, <3>4, <3>5, <4>1, ExtFacts
    <3>7. Drop(up, y) \in Paths /\ Ext(up, Drop(up, y)) /\ L(Drop(up, y)) = y
      BY <1>5, <3>6
    <3>8. Drop(up, y) \in E
      BY <1>3, <3>7
    <3>9. Ext(Append(p, s), Drop(up, y))
      BY <1>6, <2>2, <3>4, <3>5, <3>7
    <3> QED  BY <3>8, <3>9 DEF Below
  <2>4. CASE ~Ext(up, p)
    <3>1. Below(D, p)
      <4>1. CASE Ext(up, q)
        <5>1. Ext(p, up)
          BY <2>1, <2>2, <2>4, <4>1, ExtFacts
        <5> QED  BY <1>9, <1>10, <5>1 DEF Below
      <4>2. CASE ~Ext(up, q)
        BY <1>3, <2>1, <4>2 DEF Below
      <4> QED  BY <4>1, <4>2
    <3>2. p \notin D
      BY <1>3, <2>4
    <3>3. PICK y \in D : Ext(Append(p, s), y)
      BY <1>2, <3>1, <3>2 DEF Full, Below
    <3>4. y \in Paths
      BY <1>2
    <3>5. CASE ~Ext(up, y)
      BY <1>3, <3>3, <3>4, <3>5 DEF Below
    <3>6. CASE Ext(up, y)
      <4>1. Ext(Append(p, s), up) \/ Ext(up, Append(p, s))
        BY <2>2, <3>3, <3>4, <3>6, ExtFacts
      <4>2. Ext(Append(p, s), up)
        BY <2>2, <2>4, <4>1, ExtAppend, ExtFacts
      <4>3. Below(D, up) /\ up \notin D
        BY <1>2, <1>8, <1>9 DEF Below, Apart
      <4>4. PICK z \in D : Ext(twin, z)
        BY <1>1, <1>2, <4>3 DEF Full, Below, twin
      <4>5. Drop(up, z) \in Paths /\ Ext(up, Drop(up, z)) /\ L(Drop(up, z)) = z
        BY <1>2, <1>5, <4>4
      <4>6. Drop(up, z) \in E
        BY <1>3, <4>5
      <4>7. Ext(Append(p, s), Drop(up, z))
        BY <2>2, <4>2, <4>5, ExtFacts
      <4> QED  BY <4>6, <4>7 DEF Below
    <3> QED  BY <3>5, <3>6
  <2> QED  BY <2>3, <2>4
<1> QED  BY <1>11, <1>12 DEF E, o

(* The image of finitely many things. *)
LEMMA ImageFinite ==
    ASSUME NEW S, IsFiniteSet(S), NEW T, NEW f \in [S -> T], \A t \in T : \E s \in S : f[s] = t
    PROVE  IsFiniteSet(T)
<1>1. f \in Surjection(S, T)
  BY DEF Surjection
<1> QED  BY <1>1, FS_Surjection

LEMMA FrontPath ==
    ASSUME NEW s \in Paths, NEW n \in Nat, Len(s) = n + 1
    PROVE  Front(s) \in Paths /\ Len(Front(s)) = n /\ \A i \in 1 .. n : Front(s)[i] = s[i]
<1>1. Front(s) = SubSeq(s, 1, n)
  BY DEF Front
<1>2. s \in Seq(Sides)
  BY DEF Paths
<1>3. SubSeq(s, 1, n) \in Seq(Sides) /\ Len(SubSeq(s, 1, n)) = n /\ \A i \in 1 .. n : SubSeq(s, 1, n)[i] = s[i]
  BY <1>2
<1> QED  BY <1>1, <1>3 DEF Paths

LEMMA CloseInIs ==
    ASSUME NEW D, Tree(D), NEW T, NEW tab \in [D -> T], NEW place \in D
    PROVE  \E E : Tree(E) /\ CloseIn(tab, place) \in [E -> T]
<1>1. D \in SUBSET Paths /\ IsFiniteSet(D) /\ Apart(D) /\ Full(D) /\ place \in Paths /\ DOMAIN tab = D
  BY DEF Tree
<1>2. CASE place = <<>>
  <2>1. CloseIn(tab, place) = EmptyTab
    BY <1>2 DEF CloseIn
  <2>2. EmptyTab \in [{} -> T]
    BY DEF EmptyTab
  <2> QED  BY <2>1, <2>2, EmptyTree
<1>3. CASE place # <<>>
  <2> DEFINE n == Len(place)
             side == place[n]
             o == Other(side)
             up == Front(place)
             twin == Append(up, o)
  <2>1. n \in Nat /\ n >= 1 /\ \A i \in 1 .. n : place[i] \in Sides
    <3>1. n \in Nat /\ \A i \in 1 .. n : place[i] \in Sides
      BY <1>1, PathTyped
    <3>2. n # 0
      BY <1>1, <1>3, EmptyPath, SamePath
    <3> HIDE DEF n
    <3> QED  BY <3>1, <3>2
  <2>2. side \in Sides /\ o \in Sides /\ o # side
    <3>1. n \in 1 .. n
      BY <2>1
    <3> QED  BY <2>1, <3>1, OtherSide
  <2>3. up \in Paths /\ Len(up) = n - 1 /\ \A i \in 1 .. n - 1 : up[i] = place[i]
    <3>1. n - 1 \in Nat /\ n = (n - 1) + 1
      <4> HIDE DEF n
      <4> QED  BY <2>1
    <3> QED  BY <1>1, <3>1, FrontPath
  <2>4. Append(up, side) = place
    <3> DEFINE a == Append(up, side)
    <3>1. a \in Paths /\ Len(a) = Len(up) + 1 /\ a[Len(up) + 1] = side /\ \A i \in 1 .. Len(up) : a[i] = up[i]
      BY <2>2, <2>3, AppendPath
    <3> HIDE DEF a, up
    <3>2. Len(a) = n
      BY <2>1, <2>3, <3>1
    <3>3. \A i \in 1 .. n : a[i] = place[i]
      <4>1. \A i \in 1 .. n : i = n \/ i \in 1 .. n - 1
        BY <2>1
      <4>2. Len(up) + 1 = n
        BY <2>1, <2>3
      <4> QED  BY <2>3, <3>1, <4>1, <4>2
    <3>4. a = place
      BY <1>1, <3>1, <3>2, <3>3, SamePath
    <3> QED  BY <3>4 DEF a
  <2>5. twin \in Paths /\ Ext(up, place) /\ ~Ext(place, up) /\ Ext(up, twin)
    <3> HIDE DEF up, o, side, n
    <3>1. \A s \in Sides : Append(up, s) \in Paths /\ Ext(up, Append(up, s)) /\ ~Ext(Append(up, s), up)
      BY <2>3, AppendPath, ExtAppend
    <3> QED  BY <2>2, <2>4, <3>1
  <2> DEFINE moved == Under(tab, twin)
             rest == D \ (moved \cup {place})
             E == rest \cup {RemoveAt(p, n) : p \in moved}
             f == [q \in E |-> IF q \in rest THEN tab[q] ELSE tab[InsertAt(q, n, o)]]
  <2>6. CloseIn(tab, place) = f
    BY <1>1, <1>3 DEF CloseIn
  <2>7. \A q : q \in moved <=> q \in D /\ Ext(twin, q)
    BY <1>1, <2>5, UnderExt
  <2> HIDE DEF moved, n, side, o, up, twin
  <2>8. \A q : Drop(up, q) = RemoveAt(q, n) /\ Lift(up, o, q) = InsertAt(q, n, o)
    <3>1. Len(up) + 1 = n
      BY <2>1, <2>3
    <3> QED  BY <3>1 DEF Drop, Lift
  <2>9. \A q : q \in rest <=> q \in D /\ ~Ext(up, q)
    <3>1. ASSUME NEW q \in D, Ext(up, q) PROVE q \in moved \/ q = place
      <4>1. q \in Paths
        BY <1>1
      <4>2. q # up
        BY <1>1, <2>5 DEF Apart
      <4>3. PICK s \in Sides : Ext(Append(up, s), q)
        BY <2>3, <3>1, <4>1, <4>2, ExtAppend
      <4>4. s = side \/ s = o
        BY <2>2, OtherSide DEF o
      <4> QED  BY <1>1, <2>4, <2>7, <4>3, <4>4 DEF Apart, twin
    <3>2. ASSUME NEW q \in D, q \in moved \/ q = place PROVE Ext(up, q)
      <4>1. q \in Paths
        BY <1>1
      <4> QED  BY <2>3, <2>5, <2>7, <3>2, <4>1, ExtFacts
    <3> QED  BY <3>1, <3>2
  <2>10. \A q \in moved : Drop(up, q) \in Paths /\ Ext(up, Drop(up, q)) /\ Lift(up, o, Drop(up, q)) = q
    BY <1>1, <2>2, <2>3, <2>7, DropIs, DropExt DEF twin
  <2> HIDE DEF rest
  <2>11. \A q : q \in E <=> q \in rest \/ \E p \in moved : q = Drop(up, p)
    BY <2>8
  <2>12. \A q : q \in E <=> q \in Closed(D, up, o)
    <3>1. ASSUME NEW q \in E PROVE q \in Closed(D, up, o)
      <4>1. CASE q \in rest
        BY <1>1, <2>9, <4>1 DEF Closed
      <4>2. CASE q \notin rest
        <5>1. PICK p \in moved : q = Drop(up, p)
          BY <2>11, <4>2
        <5> QED  BY <2>7, <2>10, <5>1 DEF Closed
      <4> QED  BY <4>1, <4>2
    <3>2. ASSUME NEW q \in Closed(D, up, o) PROVE q \in E
      <4>1. q \in Paths /\ IF Ext(up, q) THEN Lift(up, o, q) \in D ELSE q \in D
        BY DEF Closed
      <4>2. CASE Ext(up, q)
        <5>1. Lift(up, o, q) \in moved /\ Drop(up, Lift(up, o, q)) = q
          BY <2>2, <2>3, <2>7, <4>1, <4>2, LiftExt DEF twin
        <5> QED  BY <2>11, <5>1
      <4>3. CASE ~Ext(up, q)
        BY <2>9, <2>11, <4>1, <4>3
      <4> QED  BY <4>2, <4>3
    <3> QED  BY <3>1, <3>2
  <2>13. IsFiniteSet(E)
    <3> DEFINE down == {Drop(up, p) : p \in moved}
               g == [p \in moved |-> Drop(up, p)]
    <3>1. IsFiniteSet(moved) /\ IsFiniteSet(rest)
      <4>1. moved \in SUBSET D /\ rest \in SUBSET D
        BY <2>7, <2>9
      <4> QED  BY <1>1, <4>1, FS_Subset
    <3>2. g \in [moved -> down] /\ \A t \in down : \E s \in moved : g[s] = t
      OBVIOUS
    <3> HIDE DEF g
    <3>3. IsFiniteSet(down)
      <4> HIDE DEF down
      <4> QED  BY <3>1, <3>2, ImageFinite
    <3>4. E = rest \cup down
      BY <2>8
    <3> HIDE DEF down, E
    <3> QED  BY <3>1, <3>3, <3>4, FS_Union
  <2>14. f \in [E -> T]
    <3>1. ASSUME NEW q \in E PROVE f[q] \in T
      <4>1. CASE q \in rest
        BY <2>9, <4>1
      <4>2. CASE q \notin rest
        <5>1. PICK p \in moved : q = Drop(up, p)
          BY <2>11, <4>2
        <5>2. InsertAt(q, n, o) \in D
          BY <2>7, <2>8, <2>10, <5>1
        <5> QED  BY <4>2, <5>2
      <4> QED  BY <4>1, <4>2
    <3> QED  BY <3>1
  <2> HIDE DEF E, f
  <2>15. E \in SUBSET Paths
    BY <2>12 DEF Closed
  <2>16. E = Closed(D, up, o)
    BY <2>12
  <2>17. Apart(Closed(D, up, o)) /\ Full(Closed(D, up, o))
    BY <2>2, <2>3, <2>4, ClosedTree DEF o
  <2>18. Tree(E)
    BY <2>13, <2>15, <2>16, <2>17 DEF Tree
  <2> QED  BY <2>6, <2>14, <2>18
<1> QED  BY <1>2, <1>3
-----------------------------------------------------------------------------
(* The order of the panes: every one has a number of its own.              *)

LEMMA BeforeIs ==
    ASSUME NEW p \in Paths, NEW q \in Paths
    PROVE  Before(p, q) <=>
             \E i \in 1 .. Len(p) : /\ i <= Len(q) /\ p[i] = "left" /\ q[i] = "right"
                                    /\ \A j \in 1 .. i - 1 : p[j] = q[j]
<1>1. Len(p) \in Nat /\ Len(q) \in Nat /\ DOMAIN p = 1 .. Len(p) /\ DOMAIN q = 1 .. Len(q)
  BY PathTyped
<1>2. \A i : i \in DOMAIN p \cap DOMAIN q <=> i \in 1 .. Len(p) /\ i <= Len(q)
  BY <1>1
<1>3. ASSUME NEW i \in 1 .. Len(p), i <= Len(q)
      PROVE  SubSeq(p, 1, i - 1) = SubSeq(q, 1, i - 1) <=> \A j \in 1 .. i - 1 : p[j] = q[j]
  <2> DEFINE a == SubSeq(p, 1, i - 1)
             z == SubSeq(q, 1, i - 1)
  <2>1. /\ a \in Paths /\ z \in Paths /\ Len(a) = i - 1 /\ Len(z) = i - 1
        /\ \A j \in 1 .. i - 1 : a[j] = p[j] /\ z[j] = q[j]
    BY <1>1, <1>3 DEF Paths
  <2> HIDE DEF a, z
  <2>2. a = z <=> \A j \in 1 .. i - 1 : p[j] = q[j]
    BY <2>1, SamePath
  <2> QED  BY <2>2 DEF a, z
<1> QED  BY <1>2, <1>3 DEF Before

LEMMA BeforeOrders ==
    ASSUME NEW p \in Paths, NEW q \in Paths
    PROVE  /\ ~Before(p, p)
           /\ \A r \in Paths : Before(p, q) /\ Before(q, r) => Before(p, r)
           /\ p = q \/ Ext(p, q) \/ Ext(q, p) \/ Before(p, q) \/ Before(q, p)
<1>1. Len(p) \in Nat /\ Len(q) \in Nat /\ \A i \in 1 .. Len(p) : p[i] \in Sides
  BY PathTyped
<1>2. ~Before(p, p)
  BY BeforeIs
<1>3. ASSUME NEW r \in Paths, Before(p, q), Before(q, r) PROVE Before(p, r)
  <2>0. Len(r) \in Nat
    BY PathTyped
  <2>1. PICK i \in 1 .. Len(p) : i <= Len(q) /\ p[i] = "left" /\ q[i] = "right" /\ \A k \in 1 .. i - 1 : p[k] = q[k]
    BY <1>3, BeforeIs
  <2>2. PICK j \in 1 .. Len(q) : j <= Len(r) /\ q[j] = "left" /\ r[j] = "right" /\ \A k \in 1 .. j - 1 : q[k] = r[k]
    BY <1>3, BeforeIs
  <2>3. CASE i < j
    <3>1. i \in 1 .. Len(p) /\ i <= Len(r) /\ i \in 1 .. j - 1 /\ \A k \in 1 .. i - 1 : k \in 1 .. j - 1
      BY <1>1, <2>0, <2>2, <2>3
    <3>2. r[i] = "right" /\ \A k \in 1 .. i - 1 : p[k] = r[k]
      BY <2>1, <2>2, <3>1
    <3> QED  BY <2>1, <3>1, <3>2, BeforeIs
  <2>4. CASE j < i
    <3>1. j \in 1 .. Len(p) /\ j <= Len(r) /\ j \in 1 .. i - 1 /\ \A k \in 1 .. j - 1 : k \in 1 .. i - 1
      BY <1>1, <2>0, <2>1, <2>2, <2>4
    <3>2. p[j] = "left" /\ r[j] = "right" /\ \A k \in 1 .. j - 1 : p[k] = r[k]
      BY <2>1, <2>2, <3>1
    <3> QED  BY <3>1, <3>2, BeforeIs
  <2>5. CASE i = j
    BY <2>1, <2>2, <2>5
  <2> QED  BY <1>1, <2>3, <2>4, <2>5
<1>4. ASSUME ~Ext(p, q), ~Ext(q, p) PROVE Before(p, q) \/ Before(q, p)
  <2> DEFINE S == {i \in Nat : i \in 1 .. Len(p) /\ i <= Len(q) /\ p[i] # q[i]}
  <2>1. S # {}
    BY <1>1, <1>4 DEF Ext
  <2>2. PICK least \in S : \A i \in S : least <= i
    <3>1. S \in SUBSET Nat
      OBVIOUS
    <3> HIDE DEF S
    <3> QED  BY <2>1, <3>1, LeastOf
  <2>3. /\ least \in 1 .. Len(p) /\ least \in 1 .. Len(q) /\ p[least] # q[least]
        /\ \A j \in 1 .. least - 1 : p[j] = q[j]
    BY <1>1, <2>2
  <2>4. p[least] \in Sides /\ q[least] \in Sides
    BY <2>3, PathTyped
  <2>5. CASE p[least] = "left"
    <3>1. q[least] = "right"
      BY <2>3, <2>4, <2>5 DEF Sides
    <3> QED  BY <1>1, <2>3, <2>5, <3>1, BeforeIs
  <2>6. CASE p[least] = "right"
    <3>1. q[least] = "left"
      BY <2>3, <2>4, <2>6 DEF Sides
    <3> QED  BY <1>1, <2>3, <2>6, <3>1, BeforeIs
  <2> QED  BY <2>4, <2>5, <2>6 DEF Sides
<1> QED  BY <1>2, <1>3, <1>4

Shown == Texts \cup {Blank}

Trees == {D \in SUBSET Paths : Tree(D)}
TabSet == UNION {[D -> Shown] : D \in Trees}

(* A window with tabs has an active one. *)
WindowSet ==
    {win \in [tabs : Seq(TabSet), active : Nat] :
        win.active < Len(win.tabs) \/ (win.tabs = <<>> /\ win.active = 0)}

LEMMA TabTyped ==
    ASSUME NEW tab \in TabSet
    PROVE  Tree(DOMAIN tab) /\ DOMAIN tab \in SUBSET Paths /\ tab \in [DOMAIN tab -> Shown]
  BY DEF TabSet, Trees

LEMMA TabMade == ASSUME NEW D, Tree(D), NEW tab \in [D -> Shown] PROVE tab \in TabSet
  BY DEF TabSet, Trees, Tree

LEMMA WindowTyped ==
    ASSUME NEW ws \in Seq(WindowSet), NEW w \in 1 .. Len(ws)
    PROVE  /\ ws[w] \in WindowSet /\ ws[w] \in [tabs : Seq(TabSet), active : Nat]
           /\ ws[w].tabs \in Seq(TabSet) /\ ws[w].active \in Nat /\ Len(ws[w].tabs) \in Nat
           /\ DOMAIN ws[w].tabs = 1 .. Len(ws[w].tabs)
           /\ \A t \in 1 .. Len(ws[w].tabs) :
                ws[w].tabs[t] \in TabSet /\ Tree(DOMAIN ws[w].tabs[t]) /\ DOMAIN ws[w].tabs[t] \in SUBSET Paths
<1>1. ws[w] \in WindowSet
  OBVIOUS
<1>2. ws[w].tabs \in Seq(TabSet) /\ ws[w].active \in Nat /\ ws[w] \in [tabs : Seq(TabSet), active : Nat]
  BY <1>1 DEF WindowSet
<1>3. /\ Len(ws[w].tabs) \in Nat /\ DOMAIN ws[w].tabs = 1 .. Len(ws[w].tabs)
      /\ \A t \in 1 .. Len(ws[w].tabs) : ws[w].tabs[t] \in TabSet
  BY <1>2
<1> QED  BY <1>1, <1>2, <1>3, TabTyped

LEMMA PanesIs ==
    ASSUME NEW ws \in Seq(WindowSet)
    PROVE  \A x : x \in Panes(ws) <=>
             \E w \in 1 .. Len(ws) : \E t \in 1 .. Len(ws[w].tabs) : \E q \in DOMAIN ws[w].tabs[t] : x = <<w, t, q>>
<1>1. DOMAIN ws = 1 .. Len(ws) /\ \A w \in 1 .. Len(ws) : DOMAIN ws[w].tabs = 1 .. Len(ws[w].tabs)
  BY WindowTyped
<1> QED  BY <1>1 DEF Panes

(* A finite family of finite sets. *)
LEMMA UnionFinite ==
    ASSUME NEW n \in Nat, NEW f, \A i \in 1 .. n : IsFiniteSet(f[i])
    PROVE  IsFiniteSet(UNION {f[i] : i \in 1 .. n})
<1> DEFINE T == {f[i] : i \in 1 .. n}
           g == [i \in 1 .. n |-> f[i]]
<1>1. IsFiniteSet(1 .. n)
  BY FS_Interval
<1>2. g \in [1 .. n -> T] /\ \A t \in T : \E s \in 1 .. n : g[s] = t
  OBVIOUS
<1>3. \A t \in T : IsFiniteSet(t)
  OBVIOUS
<1> HIDE DEF T, g
<1>4. IsFiniteSet(T)
  BY <1>1, <1>2, ImageFinite
<1>5. IsFiniteSet(UNION T)
  BY <1>3, <1>4, FS_UNION
<1> QED  BY <1>5 DEF T

LEMMA PanesFinite == ASSUME NEW ws \in Seq(WindowSet) PROVE IsFiniteSet(Panes(ws))
<1>1. Len(ws) \in Nat /\ DOMAIN ws = 1 .. Len(ws)
  OBVIOUS
<1> DEFINE at1(w, t) == {<<w, t, q>> : q \in DOMAIN ws[w].tabs[t]}
           of(w) == [t \in 1 .. Len(ws[w].tabs) |-> at1(w, t)]
           all == [w \in 1 .. Len(ws) |-> UNION {of(w)[t] : t \in 1 .. Len(ws[w].tabs)}]
<1>2. ASSUME NEW w \in 1 .. Len(ws), NEW t \in 1 .. Len(ws[w].tabs) PROVE IsFiniteSet(at1(w, t))
  <2> DEFINE D == DOMAIN ws[w].tabs[t]
             T == at1(w, t)
             g == [q \in D |-> <<w, t, q>>]
  <2>1. IsFiniteSet(D)
    BY WindowTyped DEF Tree
  <2>2. g \in [D -> T] /\ \A x \in T : \E q \in D : g[q] = x
    OBVIOUS
  <2> HIDE DEF D, T, g
  <2>3. IsFiniteSet(T)
    BY <2>1, <2>2, ImageFinite
  <2> QED  BY <2>3 DEF T
<1> HIDE DEF at1
<1>3. ASSUME NEW w \in 1 .. Len(ws) PROVE IsFiniteSet(all[w])
  <2> DEFINE n == Len(ws[w].tabs)
             f == of(w)
  <2>1. n \in Nat
    BY WindowTyped
  <2>2. \A i \in 1 .. n : IsFiniteSet(f[i])
    BY <1>2
  <2> HIDE DEF n, f
  <2>3. IsFiniteSet(UNION {f[i] : i \in 1 .. n})
    BY <2>1, <2>2, UnionFinite
  <2> QED  BY <2>3 DEF n, f
<1>4. Panes(ws) = UNION {all[w] : w \in 1 .. Len(ws)}
  <2>1. \A x : x \in UNION {all[w] : w \in 1 .. Len(ws)} <=>
           \E w \in 1 .. Len(ws) : \E t \in 1 .. Len(ws[w].tabs) : x \in at1(w, t)
    <3>1. ASSUME NEW w \in 1 .. Len(ws), NEW x
          PROVE  x \in all[w] <=> \E t \in 1 .. Len(ws[w].tabs) : x \in at1(w, t)
      <4>1. all[w] = UNION {of(w)[t] : t \in 1 .. Len(ws[w].tabs)}
        OBVIOUS
      <4>2. \A t \in 1 .. Len(ws[w].tabs) : of(w)[t] = at1(w, t)
        OBVIOUS
      <4> HIDE DEF all, of
      <4> QED  BY <4>1, <4>2
    <3> HIDE DEF all
    <3> QED  BY <3>1
  <2> HIDE DEF all
  <2>2. \A x : x \in UNION {all[w] : w \in 1 .. Len(ws)} <=> x \in Panes(ws)
    BY <2>1, PanesIs DEF at1
  <2> QED  BY <2>2
<1> HIDE DEF all
<1> QED  BY <1>1, <1>3, <1>4, UnionFinite, ZenonT(60)

LEMMA EarlierOrders ==
    ASSUME NEW ws \in Seq(WindowSet), NEW x \in Panes(ws), NEW y \in Panes(ws)
    PROVE  /\ ~Earlier(x, x)
           /\ \A z \in Panes(ws) : Earlier(x, y) /\ Earlier(y, z) => Earlier(x, z)
           /\ x # y => Earlier(x, y) \/ Earlier(y, x)
<1>1. ASSUME NEW z \in Panes(ws)
      PROVE  /\ z = <<z[1], z[2], z[3]>> /\ z[1] \in 1 .. Len(ws) /\ z[2] \in 1 .. Len(ws[z[1]].tabs)
             /\ z[1] \in Int /\ z[2] \in Int /\ z[3] \in DOMAIN ws[z[1]].tabs[z[2]] /\ z[3] \in Paths
  <2>1. PICK w \in 1 .. Len(ws) : \E t \in 1 .. Len(ws[w].tabs) : \E q \in DOMAIN ws[w].tabs[t] : z = <<w, t, q>>
    BY PanesIs
  <2>2. PICK t \in 1 .. Len(ws[w].tabs) : \E q \in DOMAIN ws[w].tabs[t] : z = <<w, t, q>>
    BY <2>1
  <2>4. PICK q \in DOMAIN ws[w].tabs[t] : z = <<w, t, q>>
    BY <2>2
  <2>3. q \in Paths
    BY WindowTyped
  <2> QED  BY <2>3, <2>4
<1>2. \A z \in Panes(ws) : ~Earlier(z, z)
  BY <1>1, BeforeOrders DEF Earlier
<1>3. ASSUME NEW z \in Panes(ws), Earlier(x, y), Earlier(y, z) PROVE Earlier(x, z)
  <2>1. Before(x[3], y[3]) /\ Before(y[3], z[3]) => Before(x[3], z[3])
    BY <1>1, BeforeOrders
  <2>2. x[1] \in Int /\ x[2] \in Int /\ y[1] \in Int /\ y[2] \in Int /\ z[1] \in Int /\ z[2] \in Int
    BY <1>1
  <2> QED  BY <1>3, <2>1, <2>2 DEF Earlier
<1>4. ASSUME x # y PROVE Earlier(x, y) \/ Earlier(y, x)
  <2>1. x[1] \in Int /\ x[2] \in Int /\ y[1] \in Int /\ y[2] \in Int
    BY <1>1
  <2>2. CASE x[1] # y[1] \/ x[2] # y[2]
    BY <2>1, <2>2 DEF Earlier
  <2>3. CASE x[1] = y[1] /\ x[2] = y[2]
    <3>1. x[3] # y[3]
      BY <1>1, <1>4, <2>3
    <3>2. Apart(DOMAIN ws[x[1]].tabs[x[2]])
      BY <1>1, WindowTyped DEF Tree
    <3>3. x[3] \in DOMAIN ws[x[1]].tabs[x[2]] /\ y[3] \in DOMAIN ws[x[1]].tabs[x[2]]
      BY <1>1, <2>3
    <3>4. ~Ext(x[3], y[3]) /\ ~Ext(y[3], x[3])
      BY <3>1, <3>2, <3>3 DEF Apart
    <3>5. Before(x[3], y[3]) \/ Before(y[3], x[3])
      BY <1>1, <3>1, <3>4, BeforeOrders
    <3> QED  BY <2>3, <3>5 DEF Earlier
  <2> QED  BY <2>2, <2>3
<1> QED  BY <1>2, <1>3, <1>4

LEMMA OwnNumber ==
    ASSUME NEW ws \in Seq(WindowSet), NEW x \in Panes(ws), NEW y \in Panes(ws)
    PROVE  /\ NumberOf(ws, x) \in Nat
           /\ NumberOf(ws, x) = NumberOf(ws, y) => x = y
<1> DEFINE ahead(z) == {u \in Panes(ws) : Earlier(u, z)}
<1>1. ASSUME NEW z \in Panes(ws) PROVE IsFiniteSet(ahead(z)) /\ NumberOf(ws, z) = Cardinality(ahead(z))
  <2>1. ahead(z) \in SUBSET Panes(ws)
    OBVIOUS
  <2>2. IsFiniteSet(ahead(z))
    <3> HIDE DEF ahead
    <3> QED  BY <2>1, PanesFinite, FS_Subset
  <2> QED  BY <2>2 DEF NumberOf
<1>2. ASSUME NEW z \in Panes(ws), NEW u \in Panes(ws), Earlier(u, z) PROVE NumberOf(ws, u) # NumberOf(ws, z)
  <2>1. ahead(u) \in SUBSET ahead(z) /\ u \in ahead(z) /\ u \notin ahead(u)
    BY <1>2, EarlierOrders
  <2> HIDE DEF ahead
  <2> QED  BY <1>1, <2>1, FS_Subset
<1>3. NumberOf(ws, x) \in Nat
  <2> HIDE DEF ahead
  <2> QED  BY <1>1, FS_CardinalityType
<1> QED  BY <1>2, <1>3, EarlierOrders

(* What is written of a pane is what its file is read for. *)
LEMMA NumberedIs ==
    ASSUME NEW ws \in Seq(WindowSet)
    PROVE  /\ Len(Numbered(ws)) = Len(ws)
           /\ \A w \in 1 .. Len(ws) :
                /\ Numbered(ws)[w].active = ws[w].active
                /\ Len(Numbered(ws)[w].tabs) = Len(ws[w].tabs)
                /\ \A t \in 1 .. Len(ws[w].tabs) :
                    /\ DOMAIN Numbered(ws)[w].tabs[t] = DOMAIN ws[w].tabs[t]
                    /\ \A q \in DOMAIN ws[w].tabs[t] :
                        Numbered(ws)[w].tabs[t][q] = NumberOf(ws, <<w, t, q>>)
<1>1. Len(ws) \in Nat /\ DOMAIN ws = 1 .. Len(ws)
  OBVIOUS
<1> DEFINE tabsOf(w) == [t \in DOMAIN ws[w].tabs |-> [q \in DOMAIN ws[w].tabs[t] |-> NumberOf(ws, <<w, t, q>>)]]
<1>2. ASSUME NEW w \in 1 .. Len(ws)
      PROVE  Numbered(ws)[w].active = ws[w].active /\ Numbered(ws)[w].tabs = tabsOf(w)
  <2>1. ws[w] \in [tabs : Seq(TabSet), active : Nat]
    BY WindowTyped
  <2> QED  BY <1>1, <2>1 DEF Numbered
<1>3. Len(Numbered(ws)) = Len(ws)
  BY <1>1 DEF Numbered
<1>4. ASSUME NEW w \in 1 .. Len(ws)
      PROVE  /\ Len(Numbered(ws)[w].tabs) = Len(ws[w].tabs)
             /\ \A t \in 1 .. Len(ws[w].tabs) :
                  /\ DOMAIN Numbered(ws)[w].tabs[t] = DOMAIN ws[w].tabs[t]
                  /\ \A q \in DOMAIN ws[w].tabs[t] : Numbered(ws)[w].tabs[t][q] = NumberOf(ws, <<w, t, q>>)
  <2>1. Len(ws[w].tabs) \in Nat /\ DOMAIN ws[w].tabs = 1 .. Len(ws[w].tabs)
    BY WindowTyped
  <2> DEFINE n == Len(ws[w].tabs)
             row(t) == [q \in DOMAIN ws[w].tabs[t] |-> NumberOf(ws, <<w, t, q>>)]
             r == [t \in 1 .. n |-> row(t)]
  <2>2. Numbered(ws)[w].tabs = r
    BY <1>2, <2>1
  <2>3. \A t \in 1 .. n : /\ DOMAIN row(t) = DOMAIN ws[w].tabs[t]
                          /\ \A q \in DOMAIN ws[w].tabs[t] : row(t)[q] = NumberOf(ws, <<w, t, q>>)
    OBVIOUS
  <2> HIDE DEF row
  <2>4. Len(r) = n /\ \A t \in 1 .. n : r[t] = row(t)
    <3> HIDE DEF n
    <3>1. n \in Nat
      BY <2>1 DEF n
    <3> QED  BY <3>1
  <2> HIDE DEF r
  <2> QED  BY <2>2, <2>3, <2>4
<1> QED  BY <1>2, <1>3, <1>4
-----------------------------------------------------------------------------
(* What is kept of a sequence. *)

KeptSet(list, kept) == {list[i] : i \in kept \cap DOMAIN list}

LEMMA KeepingIs ==
    ASSUME NEW T, NEW list \in Seq(T), NEW kept
    PROVE  /\ Keeping(list, kept)[0] = <<>>
           /\ \A i \in 0 .. Len(list) : Keeping(list, kept)[i] \in Seq(KeptSet(list, kept))
           /\ \A i \in 1 .. Len(list) :
                Keeping(list, kept)[i] =
                    IF i \in kept THEN Append(Keeping(list, kept)[i - 1], list[i]) ELSE Keeping(list, kept)[i - 1]
<1> DEFINE n == Len(list)
           K == KeptSet(list, kept)
           Step(f) == [i \in 0 .. n |->
                         IF i = 0 THEN <<>>
                         ELSE IF i \in kept THEN Append(f[i - 1], list[i]) ELSE f[i - 1]]
           k == CHOOSE f : f = Step(f)
<1>1. Keeping(list, kept) = k
  BY DEF Keeping
<1>2. n \in Nat /\ \A i \in 1 .. n : i \in kept => list[i] \in K
  BY DEF KeptSet
<1> HIDE DEF K
<1> DEFINE F == [i \in 1 .. n |-> [r \in Seq(K) |-> IF i \in kept THEN Append(r, list[i]) ELSE r]]
<1>3. PICK g : IsRun(g, n, Seq(K), <<>>, F)
  <2>1. F \in [1 .. n -> [Seq(K) -> Seq(K)]]
    BY <1>2
  <2>2. IsStep(F, n, Seq(K)) /\ <<>> \in Seq(K)
    BY <2>1 DEF IsStep
  <2> HIDE DEF F, n
  <2> QED  BY <1>2, <2>2, Recursion
<1>4. ASSUME NEW i \in 1 .. n
      PROVE  g[i] = IF i \in kept THEN Append(g[i - 1], list[i]) ELSE g[i - 1]
  <2>0. i - 1 \in 0 .. n
    <3> HIDE DEF n
    <3> QED  BY <1>2
  <2>1. g[i - 1] \in Seq(K)
    BY <1>3, <2>0 DEF IsRun
  <2> QED  BY <1>3, <2>1 DEF IsRun
<1>5. g = Step(g)
  <2> HIDE DEF F, n
  <2>1. \A i \in 0 .. n : i = 0 \/ i \in 1 .. n
    BY <1>2
  <2>2. \A i \in 0 .. n : g[i] = Step(g)[i]
    BY <1>3, <1>4, <2>1 DEF IsRun
  <2> QED  BY <1>3, <2>2 DEF IsRun
<1>6. k = Step(k)
  <2> HIDE DEF Step
  <2> QED  BY <1>5
<1> HIDE DEF k, F
<1>7. k[0] = <<>> /\ \A i \in 1 .. n : k[i] = IF i \in kept THEN Append(k[i - 1], list[i]) ELSE k[i - 1]
  <2>1. 0 \in 0 .. n /\ \A i \in 1 .. n : i \in 0 .. n /\ i # 0
    BY <1>2
  <2>2. \A i \in 0 .. n : k[i] = Step(k)[i]
    BY <1>6
  <2> QED  BY <2>1, <2>2
<1> HIDE DEF n, Step
<1> DEFINE S == {i \in 0 .. n : k[i] \in Seq(K)}
<1>8. 0 \in S
  <2>1. 0 \in 0 .. n /\ <<>> \in Seq(K)
    BY <1>2
  <2> QED  BY <1>7, <2>1
<1>9. ASSUME NEW i \in 1 .. n, i - 1 \in S PROVE i \in S
  <2>1. i \in 0 .. n /\ k[i - 1] \in Seq(K)
    BY <1>2, <1>9
  <2>2. i \in kept => Append(k[i - 1], list[i]) \in Seq(K)
    BY <1>2, <2>1
  <2> QED  BY <1>7, <2>1, <2>2
<1>10. \A i \in 0 .. n : i \in S
  <2> HIDE DEF S
  <2> QED  BY <1>2, <1>8, <1>9, UpTo
<1> QED  BY <1>1, <1>7, <1>10 DEF n, K

StartsAs(list, other) == \A t \in 1 .. Len(list) : other[t] = list[t]

(* What is kept up to i stays where it is. *)
LEMMA KeepingGrows ==
    ASSUME NEW T, NEW list \in Seq(T), NEW kept, NEW i \in 0 .. Len(list), NEW j \in i .. Len(list)
    PROVE  /\ Len(Keeping(list, kept)[i]) \in Nat
           /\ Len(Keeping(list, kept)[i]) <= Len(Keeping(list, kept)[j])
           /\ StartsAs(Keeping(list, kept)[i], Keeping(list, kept)[j])
<1> DEFINE k == Keeping(list, kept)
           n == Len(list)
           K == KeptSet(list, kept)
           S == {m \in 0 .. n : m >= i => /\ Len(k[i]) <= Len(k[m])
                                          /\ \A t \in 1 .. Len(k[i]) : k[m][t] = k[i][t]}
<1>1. n \in Nat
  OBVIOUS
<1>2. /\ \A m \in 0 .. n : k[m] \in Seq(K)
      /\ \A m \in 1 .. n : k[m] = IF m \in kept THEN Append(k[m - 1], list[m]) ELSE k[m - 1]
      /\ \A m \in 1 .. n : m \in kept => list[m] \in K
  <2>1. DOMAIN list = 1 .. n
    OBVIOUS
  <2>2. \A m \in 1 .. n : m \in kept => list[m] \in K
    BY <2>1 DEF KeptSet
  <2> HIDE DEF k, K
  <2> QED  BY <2>2, KeepingIs DEF k, K
<1> HIDE DEF k, n, K
<1>3. \A m \in 0 .. n : Len(k[m]) \in Nat
  BY <1>2
<1>4. i \in 0 .. n /\ j \in 0 .. n /\ j >= i
  BY <1>1 DEF n
<1>5. 0 \in S
  <2>1. 0 >= i => i = 0
    BY <1>4
  <2>2. 0 \in 0 .. n
    BY <1>1
  <2> QED  BY <1>3, <2>1, <2>2
<1>6. ASSUME NEW m \in 1 .. n, m - 1 \in S PROVE m \in S
  <2>1. m \in 0 .. n /\ m - 1 \in 0 .. n
    BY <1>1
  <2>2. CASE m <= i
    <3>1. m >= i => m = i
      BY <1>4, <2>2
    <3> QED  BY <1>3, <2>1, <3>1
  <2>3. CASE ~(m <= i)
    <3>1. m - 1 >= i
      BY <1>4, <2>3
    <3>2. Len(k[i]) <= Len(k[m - 1]) /\ \A t \in 1 .. Len(k[i]) : k[m - 1][t] = k[i][t]
      BY <1>6, <3>1
    <3>3. /\ Len(k[m - 1]) \in Nat /\ Len(k[m - 1]) <= Len(k[m])
          /\ \A t \in 1 .. Len(k[m - 1]) : k[m][t] = k[m - 1][t]
      <4>1. k[m - 1] \in Seq(K) /\ Len(k[m - 1]) \in Nat
        BY <1>2, <2>1
      <4>2. CASE m \in kept
        <5>1. k[m] = Append(k[m - 1], list[m]) /\ list[m] \in K
          BY <1>2, <4>2
        <5> QED  BY <4>1, <5>1
      <4>3. CASE m \notin kept
        BY <1>2, <4>1, <4>3
      <4> QED  BY <4>2, <4>3
    <3>4. Len(k[i]) \in Nat /\ Len(k[m]) \in Nat
      BY <1>3, <1>4, <2>1
    <3>5. Len(k[i]) <= Len(k[m]) /\ \A t \in 1 .. Len(k[i]) : t \in 1 .. Len(k[m - 1])
      BY <3>2, <3>3, <3>4
    <3> QED  BY <2>1, <3>2, <3>3, <3>5
  <2> QED  BY <2>2, <2>3
<1>7. j \in S
  <2> HIDE DEF S
  <2>1. \A m \in 0 .. n : m \in S
    BY <1>1, <1>5, <1>6, UpTo
  <2> QED  BY <1>4, <2>1
<1> QED  BY <1>3, <1>4, <1>7 DEF k, StartsAs

LEMMA KeepingSame ==
    ASSUME NEW T, NEW list \in Seq(T), NEW kept, NEW i \in 0 .. Len(list), NEW j \in i .. Len(list),
           NEW t \in 1 .. Len(Keeping(list, kept)[i])
    PROVE  Keeping(list, kept)[j][t] = Keeping(list, kept)[i][t]
<1>1. StartsAs(Keeping(list, kept)[i], Keeping(list, kept)[j])
  BY KeepingGrows
<1> QED  BY <1>1 DEF StartsAs

(* Where all are kept, nothing is lost. *)
LEMMA KeepingAll ==
    ASSUME NEW T, NEW list \in Seq(T), NEW kept, NEW i \in 0 .. Len(list), 1 .. i \subseteq kept
    PROVE  Len(Keeping(list, kept)[i]) = i
<1> DEFINE k == Keeping(list, kept)
           n == Len(list)
           K == KeptSet(list, kept)
           S == {m \in 0 .. i : Len(k[m]) = m}
<1>1. n \in Nat /\ i \in 0 .. n
  OBVIOUS
<1>2. /\ k[0] = <<>>
      /\ \A m \in 0 .. n : k[m] \in Seq(K)
      /\ \A m \in 1 .. n : k[m] = IF m \in kept THEN Append(k[m - 1], list[m]) ELSE k[m - 1]
  BY KeepingIs
<1> HIDE DEF k, n, K
<1>3. 0 \in S
  BY <1>1, <1>2
<1>4. ASSUME NEW m \in 1 .. i, m - 1 \in S PROVE m \in S
  <2>1. m \in kept /\ m \in 0 .. i /\ m \in 1 .. n /\ m - 1 \in 0 .. n
    BY <1>1
  <2>2. k[m] = Append(k[m - 1], list[m]) /\ k[m - 1] \in Seq(K) /\ Len(k[m - 1]) = m - 1
    BY <1>2, <1>4, <2>1
  <2>3. Len(Append(k[m - 1], list[m])) = Len(k[m - 1]) + 1
    BY <2>2
  <2> QED  BY <2>1, <2>2, <2>3
<1>5. i \in S
  <2> HIDE DEF S
  <2>1. i \in Nat /\ i \in 0 .. i
    BY <1>1
  <2>2. \A m \in 0 .. i : m \in S
    BY <1>3, <1>4, <2>1, UpTo
  <2> QED  BY <2>1, <2>2
<1> QED  BY <1>5 DEF k
-----------------------------------------------------------------------------
(* The windows. *)

LEMMA WithPanesIs ==
    ASSUME NEW win, win.tabs \in Seq(TabSet)
    PROVE  /\ \A t : t \in WithPanes(win) <=> t \in 1 .. Len(win.tabs) /\ DOMAIN win.tabs[t] # {}
           /\ Filled(win) \in Seq(TabSet) /\ Len(Filled(win)) \in Nat
           /\ WithPanes(win) # {} => Len(Filled(win)) >= 1
<1> DEFINE list == win.tabs
           kept == WithPanes(win)
           n == Len(list)
           k == Keeping(list, kept)
<1>1. list \in Seq(TabSet) /\ n \in Nat /\ DOMAIN list = 1 .. n /\ \A t \in 1 .. n : list[t] \in TabSet
  OBVIOUS
<1>2. \A t : t \in kept <=> t \in 1 .. n /\ DOMAIN list[t] # {}
  BY <1>1 DEF WithPanes
<1>3. Filled(win) = k[n]
  BY DEF Filled, Kept
<1> HIDE DEF list, kept, n
<1>4. KeptSet(list, kept) \in SUBSET TabSet
  BY <1>1 DEF KeptSet
<1>5. k[n] \in Seq(TabSet)
  <2>1. n \in 0 .. n
    BY <1>1
  <2>2. k[n] \in Seq(KeptSet(list, kept))
    BY <1>1, <2>1, KeepingIs DEF n
  <2> HIDE DEF k
  <2> QED  BY <1>4, <2>2
<1>6. ASSUME kept # {} PROVE Len(k[n]) >= 1
  <2>1. PICK t \in kept : TRUE
    BY <1>6
  <2>2. t \in 1 .. n /\ t \in 0 .. n /\ t - 1 \in 0 .. n /\ n \in t .. n
    BY <1>1, <1>2
  <2>3. k[t] = Append(k[t - 1], list[t])
    BY <1>1, <2>1, <2>2, KeepingIs, ZenonT(60) DEF n
  <2>4. k[t - 1] \in Seq(KeptSet(list, kept))
    BY <1>1, <2>2, KeepingIs DEF n
  <2>5. Len(k[t]) \in Nat /\ Len(k[t]) <= Len(k[n])
    BY <1>1, <2>2, KeepingGrows DEF n
  <2> HIDE DEF k
  <2>6. Len(Append(k[t - 1], list[t])) = Len(k[t - 1]) + 1 /\ Len(k[t - 1]) \in Nat
    BY <2>4
  <2>7. Len(k[n]) \in Nat
    BY <1>5
  <2> QED  BY <2>3, <2>5, <2>6, <2>7
<1> HIDE DEF k
<1> QED  BY <1>2, <1>3, <1>5, <1>6 DEF kept, list, n

LEMMA OneTabTyped == ASSUME NEW x \in Shown PROVE Single(x) \in TabSet /\ OneTab(x) \in WindowSet
<1>1. Single(x) \in [{<<>>} -> Shown]
  BY DEF Single
<1>2. Single(x) \in TabSet
  BY <1>1, SingleTree, TabMade
<1>3. OneTab(x) = [tabs |-> <<Single(x)>>, active |-> 0]
  BY DEF OneTab
<1>4. <<Single(x)>> \in Seq(TabSet) /\ Len(<<Single(x)>>) = 1
  BY <1>2
<1>5. OneTab(x) \in WindowSet
  BY <1>3, <1>4 DEF WindowSet
<1> QED  BY <1>2, <1>5

LEMMA WindowSetTyped ==
    ASSUME NEW ws \in Seq(WindowSet), NEW w \in 1 .. Len(ws), NEW new \in WindowSet,
           NEW vs, vs = [ws EXCEPT ![w] = new]
    PROVE  /\ vs \in Seq(WindowSet) /\ Len(vs) = Len(ws) /\ vs[w] = new
           /\ \A v \in 1 .. Len(ws) : v # w => vs[v] = ws[v]
<1>1. ws \in [1 .. Len(ws) -> WindowSet] /\ Len(ws) \in Nat
  OBVIOUS
<1>2. vs \in [1 .. Len(ws) -> WindowSet] /\ vs[w] = new /\ \A v \in 1 .. Len(ws) : v # w => vs[v] = ws[v]
  BY <1>1
<1>3. vs \in Seq(WindowSet) /\ Len(vs) = Len(ws)
  BY <1>1, <1>2
<1> QED  BY <1>2, <1>3

(* Another tab at a place, and one more tab. *)
LEMMA TabSetTyped ==
    ASSUME NEW ws \in Seq(WindowSet), NEW w \in 1 .. Len(ws), NEW t \in 1 .. Len(ws[w].tabs), NEW tab \in TabSet,
           NEW vs, vs = [ws EXCEPT ![w].tabs[t] = tab]
    PROVE  /\ vs \in Seq(WindowSet) /\ Len(vs) = Len(ws)
           /\ \A v \in 1 .. Len(ws) : v # w => vs[v] = ws[v]
           /\ vs[w].active = ws[w].active /\ Len(vs[w].tabs) = Len(ws[w].tabs)
           /\ vs[w].tabs[t] = tab
           /\ \A u \in 1 .. Len(ws[w].tabs) : u # t => vs[w].tabs[u] = ws[w].tabs[u]
<1> DEFINE win == ws[w]
           list == [win.tabs EXCEPT ![t] = tab]
           new == [win EXCEPT !.tabs = list]
<1>1. /\ win \in [tabs : Seq(TabSet), active : Nat] /\ win.tabs \in Seq(TabSet) /\ Len(win.tabs) \in Nat
      /\ win \in WindowSet
  BY WindowTyped
<1>2. vs = [ws EXCEPT ![w] = new]
  BY <1>1
<1>3. /\ list \in Seq(TabSet) /\ Len(list) = Len(win.tabs) /\ list[t] = tab
      /\ \A u \in 1 .. Len(win.tabs) : u # t => list[u] = win.tabs[u]
  <2> HIDE DEF win
  <2> QED  BY <1>1 DEF win
<1> HIDE DEF list
<1>4. new \in [tabs : Seq(TabSet), active : Nat] /\ new.tabs = list /\ new.active = win.active
  <2> HIDE DEF win
  <2> QED  BY <1>1, <1>3
<1>5. new \in WindowSet
  <2>1. win.active < Len(win.tabs)
    <3>1. win.tabs # <<>>
      BY <1>1
    <3> HIDE DEF win
    <3> QED  BY <1>1, <3>1 DEF WindowSet
  <2> HIDE DEF win, new
  <2> QED  BY <1>3, <1>4, <2>1 DEF WindowSet
<1> HIDE DEF new
<1>6. vs \in Seq(WindowSet) /\ Len(vs) = Len(ws) /\ vs[w] = new /\ \A v \in 1 .. Len(ws) : v # w => vs[v] = ws[v]
  <2>1. ws \in [1 .. Len(ws) -> WindowSet] /\ Len(ws) \in Nat
    OBVIOUS
  <2>2. vs \in [1 .. Len(ws) -> WindowSet] /\ vs[w] = new /\ \A v \in 1 .. Len(ws) : v # w => vs[v] = ws[v]
    BY <1>2, <1>5, <2>1
  <2>3. vs \in Seq(WindowSet) /\ Len(vs) = Len(ws)
    BY <2>1, <2>2
  <2> QED  BY <2>2, <2>3
<1> QED  BY <1>3, <1>4, <1>6

LEMMA TabAdded ==
    ASSUME NEW win \in WindowSet, NEW tab \in TabSet
    PROVE  /\ Append(win.tabs, tab) \in Seq(TabSet) /\ Len(Append(win.tabs, tab)) = Len(win.tabs) + 1
           /\ Len(win.tabs) \in Nat
           /\ Append(win.tabs, tab)[Len(win.tabs) + 1] = tab
           /\ \A u \in 1 .. Len(win.tabs) : Append(win.tabs, tab)[u] = win.tabs[u]
           /\ \A a \in 0 .. Len(win.tabs) : [tabs |-> Append(win.tabs, tab), active |-> a] \in WindowSet
           /\ [win EXCEPT !.tabs = Append(@, tab)] = [tabs |-> Append(win.tabs, tab), active |-> win.active]
           /\ win.active \in 0 .. Len(win.tabs)
<1>1. win \in [tabs : Seq(TabSet), active : Nat] /\ (win.active < Len(win.tabs) \/ (win.tabs = <<>> /\ win.active = 0))
  BY DEF WindowSet
<1> DEFINE list == Append(win.tabs, tab)
<1>2. win.tabs \in Seq(TabSet) /\ Len(win.tabs) \in Nat /\ win.active \in Nat
  BY <1>1
<1>3. /\ list \in Seq(TabSet) /\ Len(list) = Len(win.tabs) + 1 /\ list[Len(win.tabs) + 1] = tab
      /\ \A u \in 1 .. Len(win.tabs) : list[u] = win.tabs[u]
  BY <1>2
<1>4. [win EXCEPT !.tabs = Append(@, tab)] = [tabs |-> list, active |-> win.active]
  <2> DEFINE e == [win EXCEPT !.tabs = list]
  <2>1. e \in [tabs : Seq(TabSet), active : Nat] /\ e.tabs = list /\ e.active = win.active
    <3> HIDE DEF list
    <3> QED  BY <1>1, <1>3
  <2>2. e = [tabs |-> e.tabs, active |-> e.active]
    <3> HIDE DEF e
    <3> QED  BY <2>1
  <2> QED  BY <2>1, <2>2
<1> HIDE DEF list
<1>5. ASSUME NEW a \in 0 .. Len(win.tabs) PROVE [tabs |-> list, active |-> a] \in WindowSet
  <2>1. a \in Nat /\ a < Len(list)
    BY <1>2, <1>3
  <2> QED  BY <1>3, <2>1 DEF WindowSet
<1>6. win.active \in 0 .. Len(win.tabs)
  BY <1>1, <1>2
<1> QED  BY <1>2, <1>3, <1>4, <1>5, <1>6 DEF list

LEMMA PrunedTyped ==
    ASSUME NEW ws \in Seq(WindowSet)
    PROVE  Pruned(ws) \in Seq(WindowSet)
<1> DEFINE left(win) == Len(Filled(win))
           ahead(win) == Cardinality({t \in WithPanes(win) : t <= win.active})
           keep(win) == [tabs |-> Filled(win), active |-> IF ahead(win) < left(win) THEN ahead(win) ELSE left(win) - 1]
           list == [w \in DOMAIN ws |-> keep(ws[w])]
           kept == {w \in DOMAIN ws : WithPanes(ws[w]) # {}}
           T == {list[w] : w \in 1 .. Len(ws)}
<1>1. Pruned(ws) = Keeping(list, kept)[Len(list)]
  BY DEF Pruned, Kept
<1>2. Len(ws) \in Nat /\ DOMAIN ws = 1 .. Len(ws)
  OBVIOUS
<1> HIDE DEF keep
<1>3. /\ list \in Seq(T) /\ Len(list) = Len(ws) /\ DOMAIN list = 1 .. Len(ws)
      /\ \A w \in 1 .. Len(ws) : list[w] = keep(ws[w])
  BY <1>2
<1>4. ASSUME NEW w \in kept PROVE keep(ws[w]) \in WindowSet
  <2> DEFINE win == ws[w]
  <2>1. win \in WindowSet /\ win.tabs \in Seq(TabSet) /\ win.active \in Nat /\ WithPanes(win) # {} /\ Len(win.tabs) \in Nat
    BY <1>2, WindowTyped
  <2> HIDE DEF win
  <2>2. Filled(win) \in Seq(TabSet) /\ left(win) \in Nat /\ left(win) >= 1
    BY <2>1, WithPanesIs
  <2>3. ahead(win) \in Nat
    <3> DEFINE A == {t \in WithPanes(win) : t <= win.active}
    <3>0. \A t \in WithPanes(win) : t \in 1 .. Len(win.tabs)
      BY <2>1, WithPanesIs
    <3>1. A \in SUBSET (1 .. Len(win.tabs))
      BY <3>0
    <3>3. IsFiniteSet(1 .. Len(win.tabs))
      BY <2>1, FS_Interval
    <3> HIDE DEF A
    <3>2. IsFiniteSet(A)
      BY <3>1, <3>3, FS_Subset
    <3>4. Cardinality(A) \in Nat
      BY <3>2, FS_CardinalityType
    <3> QED  BY <3>4 DEF A
  <2> HIDE DEF left, ahead
  <2> DEFINE a == IF ahead(win) < left(win) THEN ahead(win) ELSE left(win) - 1
  <2>4. a \in Nat /\ a < left(win)
    BY <2>2, <2>3
  <2>5. keep(win) = [tabs |-> Filled(win), active |-> a]
    BY DEF keep
  <2> HIDE DEF a
  <2>6. keep(win) \in WindowSet
    BY <2>2, <2>4, <2>5 DEF WindowSet, left
  <2> QED  BY <2>6 DEF win
<1> HIDE DEF list, kept, T
<1>5. KeptSet(list, kept) \in SUBSET WindowSet
  BY <1>3, <1>4 DEF KeptSet
<1>6. Keeping(list, kept)[Len(list)] \in Seq(KeptSet(list, kept))
  <2>1. Len(list) \in 0 .. Len(list)
    BY <1>2, <1>3
  <2> QED  BY <1>3, <2>1, KeepingIs
<1> DEFINE k == Keeping(list, kept)[Len(list)]
<1> HIDE DEF k
<1>7. k \in Seq(WindowSet)
  BY <1>5, <1>6 DEF k
<1> QED  BY <1>1, <1>7 DEF k
-----------------------------------------------------------------------------
(* The invariant. *)

Positions == [window : Nat, tab : Nat, todo : Seq(Paths), whole : BOOLEAN]

TypeInv ==
    /\ phase \in {"off", "restoring", "running", "saving"}
    /\ windows \in Seq(WindowSet) /\ saved \in Seq(WindowSet)
    /\ banner \in Shown /\ (banner # Blank => failed)
    /\ at \in Positions
    /\ \A n \in DOMAIN files : files[n] \in Texts \cup {Torn}
    /\ spent \in [moves : Nat, starts : Nat, failures : Nat, texts : Nat]

(* A file holds what its pane shows. *)
FilesOf(ws) ==
    \A x \in Panes(ws) : NumberOf(ws, x) \in DOMAIN files => files[NumberOf(ws, x)] \in {Torn, TextAt(ws, x)}

(* A session on disk is the saved one, with its own files unless a save    *)
(* went over those of another.                                             *)
DiskInv ==
    /\ json = NoSession \/ json = [there |-> TRUE, windows |-> Numbered(saved)]
    /\ json # NoSession /\ ~mixed => FilesOf(saved)
    /\ phase = "saving" /\ ~mixed => json = NoSession /\ FilesOf(windows)

(* A tab on its way to be the saved one again. *)
PartOf(tab, orig) ==
    /\ \A q \in DOMAIN tab : Below(DOMAIN orig, q)
    /\ \A p \in DOMAIN orig : \E q \in DOMAIN tab : Ext(q, p)

OwnTexts(tab, orig) ==
    \A q \in DOMAIN tab : tab[q] \in {Blank, orig[FirstLeaf(orig, q)]}

(* The splits that remain are those of the tab that are still to come.     *)
Pending(tab, orig, todo, all) ==
    /\ Range(todo) \subseteq DOMAIN tab \ DOMAIN orig
    /\ IsInjective(todo)
    /\ all => DOMAIN tab \ DOMAIN orig \subseteq Range(todo)

TabOK(tab, orig, todo, all, own) ==
    /\ PartOf(tab, orig)
    /\ own => OwnTexts(tab, orig)
    /\ Pending(tab, orig, todo, all)

(* How many of the first n tabs of a window have panes. *)
Count(win, n) == Len(Keeping(win.tabs, WithPanes(win))[n])

(* How many tabs of a saved window are tried so far, and how many opened.  *)
Tried(w) == IF w < at.window THEN Len(saved[w].tabs) ELSE at.tab
Opened(w) == Count(saved[w], Tried(w))

Lower(a, b) == IF a < b THEN a ELSE b

(* The active tab is set when the next window comes. *)
ActiveOK(w) ==
    windows[w].active =
        IF w = at.window \/ windows[w].tabs = <<>> THEN 0
        ELSE Lower(saved[w].active, Len(windows[w].tabs) - 1)

Todo(w, t) == IF w = at.window /\ t = Opened(w) THEN at.todo ELSE <<>>

WindowDone(w) ==
    /\ Len(windows[w].tabs) = Opened(w)
    /\ ActiveOK(w)
    /\ \A t \in 1 .. Opened(w) :
        TabOK(windows[w].tabs[t], Filled(saved[w])[t], Todo(w, t), at.whole, ~mixed)

Progress ==
    /\ json # NoSession
    /\ at.window \in 0 .. Len(saved)
    /\ Len(windows) = at.window
    /\ at.window > 0 => at.tab \in 0 .. Len(saved[at.window].tabs)
    /\ at.todo # <<>> => at.window > 0 /\ at.tab \in WithPanes(saved[at.window])

RestoreInv ==
    phase = "restoring" => Progress /\ \A w \in 1 .. at.window : WindowDone(w)

IInv == TypeInv /\ DiskInv /\ RestoreInv

LEMMA BlankIs == Blank \in Shown /\ Blank \notin Texts /\ Torn \notin Texts /\ Torn # Blank /\ Texts \in SUBSET Nat
  BY SessionAssumption DEF Shown, Texts

LEMMA BannerForTyped == ASSUME TypeInv, NEW n PROVE BannerFor(n) \in Shown
  BY BlankIs DEF TypeInv, BannerFor, Shown

(* With its own files a session gives every pane its own banner, or none.  *)
LEMMA BannerForOwn ==
    ASSUME FilesOf(saved), NEW x \in Panes(saved)
    PROVE  BannerFor(NumberOf(saved, x)) \in {Blank, TextAt(saved, x)}
  BY DEF FilesOf, BannerFor

LEMMA SameDisk ==
    ASSUME DiskInv, UNCHANGED disk, phase' # "saving"
    PROVE  DiskInv'
  BY DEF DiskInv, disk, FilesOf

LEMMA InitIInv == Init => IInv
<1> SUFFICES ASSUME Init PROVE IInv
  OBVIOUS
<1>1. TypeInv
  <2>1. <<>> \in Seq(WindowSet) /\ 0 \in Nat /\ <<>> \in Seq(Paths) /\ TRUE \in BOOLEAN /\ DOMAIN NoFiles = {}
    BY DEF NoFiles
  <2> QED  BY <2>1, BlankIs DEF Init, TypeInv, Nowhere, Positions
<1>2. DiskInv
  BY DEF Init, DiskInv
<1>3. RestoreInv
  BY DEF Init, RestoreInv
<1> QED  BY <1>1, <1>2, <1>3 DEF IInv

LEMMA StutterIInv == ASSUME IInv, UNCHANGED vars PROVE IInv'
<1>1. TypeInv'
  BY DEF IInv, TypeInv, vars, disk
<1>2. DiskInv'
  BY DEF IInv, DiskInv, FilesOf, vars, disk
<1>3. RestoreInv'
  BY DEF IInv, RestoreInv, Progress, WindowDone, ActiveOK, Opened, Tried, Todo, vars, disk
<1> QED  BY <1>1, <1>2, <1>3 DEF IInv

LEMMA NowhereTyped == Nowhere \in Positions
<1>1. <<>> \in Seq(Paths)
  OBVIOUS
<1> QED  BY <1>1 DEF Nowhere, Positions

(* A start from nothing. *)
LEMMA StartFreshIInv == ASSUME IInv, StartFresh PROVE IInv'
<1>1. /\ phase' = "running" /\ windows' = <<OneTab(Blank)>> /\ banner' = Blank /\ at' = Nowhere
      /\ files' = files /\ json' = json /\ saved' = saved /\ mixed' = mixed
      /\ spent' = [spent EXCEPT !.starts = @ + 1]
  BY DEF StartFresh, Start, disk
<1>2. windows' \in Seq(WindowSet)
  <2>1. OneTab(Blank) \in WindowSet
    BY BlankIs, OneTabTyped
  <2> QED  BY <1>1, <2>1
<1>3. spent' \in [moves : Nat, starts : Nat, failures : Nat, texts : Nat]
  <2>1. spent \in [moves : Nat, starts : Nat, failures : Nat, texts : Nat]
    BY DEF IInv, TypeInv
  <2> QED  BY <1>1, <2>1
<1>4. TypeInv'
  BY <1>1, <1>2, <1>3, BlankIs, NowhereTyped DEF IInv, TypeInv
<1>5. DiskInv'
  BY <1>1, SameDisk DEF IInv, disk
<1> QED  BY <1>1, <1>4, <1>5 DEF IInv, RestoreInv

LEMMA StartRestoreIInv == ASSUME IInv, StartRestore PROVE IInv'
<1>1. /\ phase' = "restoring" /\ windows' = <<>> /\ banner' = Blank /\ at' = Nowhere /\ json # NoSession
      /\ files' = files /\ json' = json /\ saved' = saved /\ mixed' = mixed
      /\ spent' = [spent EXCEPT !.starts = @ + 1]
  BY DEF StartRestore, Start, disk
<1>2. windows' \in Seq(WindowSet) /\ Len(windows') = 0 /\ saved' \in Seq(WindowSet)
  <2>1. <<>> \in Seq(WindowSet) /\ Len(<<>>) = 0
    OBVIOUS
  <2> QED  BY <1>1, <2>1 DEF IInv, TypeInv
<1>3. spent' \in [moves : Nat, starts : Nat, failures : Nat, texts : Nat]
  <2>1. spent \in [moves : Nat, starts : Nat, failures : Nat, texts : Nat]
    BY DEF IInv, TypeInv
  <2> QED  BY <1>1, <2>1
<1>4. TypeInv'
  BY <1>1, <1>2, <1>3, BlankIs, NowhereTyped DEF IInv, TypeInv
<1>5. DiskInv'
  BY <1>1, SameDisk DEF IInv, disk
<1>6. Progress'
  <2>1. at'.window = 0 /\ at'.todo = <<>>
    BY <1>1 DEF Nowhere
  <2>2. Len(saved') \in Nat
    BY <1>2
  <2> QED  BY <1>1, <1>2, <2>1, <2>2 DEF Progress
<1>7. at'.window = 0
  BY <1>1 DEF Nowhere
<1>8. RestoreInv'
  BY <1>6, <1>7 DEF RestoreInv
<1> QED  BY <1>4, <1>5, <1>8 DEF IInv
-----------------------------------------------------------------------------
(* What the user does. *)

(* While the program runs, only the windows have to keep their type.       *)
LEMMA MovedIInv ==
    ASSUME IInv, windows' \in Seq(WindowSet), phase' = "running",
           UNCHANGED <<banner, at, disk, failed>>,
           spent' \in [moves : Nat, starts : Nat, failures : Nat, texts : Nat]
    PROVE  IInv'
<1>1. TypeInv'
  BY DEF IInv, TypeInv, disk
<1>2. DiskInv'
  BY SameDisk DEF IInv
<1> QED  BY <1>1, <1>2 DEF IInv, RestoreInv

LEMMA MoveIs ==
    ASSUME IInv, Move
    PROVE  /\ phase' = "running" /\ UNCHANGED <<banner, at, disk, failed>> /\ windows \in Seq(WindowSet)
           /\ banner \in Shown
           /\ spent' \in [moves : Nat, starts : Nat, failures : Nat, texts : Nat]
<1>1. spent \in [moves : Nat, starts : Nat, failures : Nat, texts : Nat] /\ spent' = [spent EXCEPT !.moves = @ + 1]
  BY DEF IInv, TypeInv, Move
<1>2. spent' \in [moves : Nat, starts : Nat, failures : Nat, texts : Nat]
  BY <1>1
<1> QED  BY <1>2 DEF IInv, TypeInv, Move

LEMMA NewWindowIInv == ASSUME IInv, NewWindow PROVE IInv'
<1>1. Move /\ windows' = Append(windows, OneTab(banner))
  BY DEF NewWindow
<1>2. windows' \in Seq(WindowSet)
  BY <1>1, MoveIs, OneTabTyped
<1> QED  BY <1>1, <1>2, MoveIs, MovedIInv

LEMMA NewTabIInv == ASSUME IInv, NEW w \in DOMAIN windows, NewTab(w) PROVE IInv'
<1> DEFINE new == [tabs |-> Append(windows[w].tabs, Single(banner)), active |-> Len(windows[w].tabs)]
<1>1. Move /\ windows' = [windows EXCEPT ![w] = new]
  BY DEF NewTab
<1>2. windows \in Seq(WindowSet) /\ banner \in Shown /\ w \in 1 .. Len(windows)
  BY <1>1, MoveIs
<1>3. Single(banner) \in TabSet /\ windows[w] \in WindowSet
  BY <1>2, OneTabTyped, WindowTyped
<1>4. new \in WindowSet
  <2>1. Len(windows[w].tabs) \in 0 .. Len(windows[w].tabs)
    BY <1>3, TabAdded
  <2> QED  BY <1>3, <2>1, TabAdded
<1> HIDE DEF new
<1>5. windows' \in Seq(WindowSet)
  BY <1>1, <1>2, <1>4, WindowSetTyped
<1> QED  BY <1>1, <1>5, MoveIs, MovedIInv

(* One tab of a window is another tab now. *)
LEMMA TabMovedIInv ==
    ASSUME IInv, phase' = "running", UNCHANGED <<banner, at, disk, failed>>,
           spent' \in [moves : Nat, starts : Nat, failures : Nat, texts : Nat],
           NEW w \in 1 .. Len(windows), NEW t \in 1 .. Len(windows[w].tabs), NEW tab \in TabSet,
           windows' = [windows EXCEPT ![w].tabs[t] = tab]
    PROVE  IInv'
<1>1. windows \in Seq(WindowSet)
  BY DEF IInv, TypeInv
<1>2. windows' \in Seq(WindowSet)
  BY <1>1, TabSetTyped
<1> QED  BY <1>2, MovedIInv

LEMMA PaneIs ==
    ASSUME IInv, NEW w \in DOMAIN windows, NEW t \in DOMAIN windows[w].tabs
    PROVE  /\ w \in 1 .. Len(windows) /\ t \in 1 .. Len(windows[w].tabs)
           /\ windows[w].tabs[t] \in [DOMAIN windows[w].tabs[t] -> Shown] /\ Tree(DOMAIN windows[w].tabs[t])
<1>1. windows \in Seq(WindowSet) /\ w \in 1 .. Len(windows)
  BY DEF IInv, TypeInv
<1>2. t \in 1 .. Len(windows[w].tabs) /\ windows[w].tabs[t] \in TabSet
  BY <1>1, WindowTyped
<1> QED  BY <1>1, <1>2, TabTyped

LEMMA SplitPaneIInv ==
    ASSUME IInv, NEW w \in DOMAIN windows, NEW t \in DOMAIN windows[w].tabs,
           NEW place \in DOMAIN windows[w].tabs[t], NEW side \in Sides, SplitPane(w, t, place, side)
    PROVE  IInv'
<1> DEFINE tab == SplitTab(windows[w].tabs[t], place, side, banner)
<1>1. Move /\ windows' = [windows EXCEPT ![w].tabs[t] = tab]
  BY DEF SplitPane
<1>2. banner \in Shown
  BY <1>1, MoveIs
<1>3. tab \in TabSet
  <2> DEFINE old == windows[w].tabs[t]
             D == DOMAIN old
  <2>1. Tree(D) /\ old \in [D -> Shown] /\ place \in D
    BY PaneIs
  <2> HIDE DEF old, D
  <2>2. SplitTab(old, place, side, banner) \in [SplitPlaces(D, place) -> Shown] /\ Tree(SplitPlaces(D, place))
    BY <1>2, <2>1, SplitTabIs
  <2> QED  BY <2>2, TabMade DEF old
<1> HIDE DEF tab
<1> QED  BY <1>1, <1>3, MoveIs, PaneIs, TabMovedIInv

LEMMA ClosePaneIInv ==
    ASSUME IInv, NEW w \in DOMAIN windows, NEW t \in DOMAIN windows[w].tabs,
           NEW place \in DOMAIN windows[w].tabs[t], ClosePane(w, t, place)
    PROVE  IInv'
<1> DEFINE tab == CloseIn(windows[w].tabs[t], place)
<1>1. Move /\ windows' = [windows EXCEPT ![w].tabs[t] = tab]
  BY DEF ClosePane
<1>2. tab \in TabSet
  BY PaneIs, CloseInIs, TabMade
<1> HIDE DEF tab
<1> QED  BY <1>1, <1>2, MoveIs, PaneIs, TabMovedIInv

LEMMA OutputIInv ==
    ASSUME IInv, NEW w \in DOMAIN windows, NEW t \in DOMAIN windows[w].tabs,
           NEW place \in DOMAIN windows[w].tabs[t], Output(w, t, place)
    PROVE  IInv'
<1> DEFINE tab == [windows[w].tabs[t] EXCEPT ![place] = spent.texts + 1]
<1>1. /\ phase' = "running" /\ UNCHANGED <<banner, at, disk, failed>>
      /\ windows' = [windows EXCEPT ![w].tabs[t] = tab]
      /\ spent.texts < MaxOutputs /\ spent' = [spent EXCEPT !.texts = @ + 1]
  BY DEF Output
<1>2. spent \in [moves : Nat, starts : Nat, failures : Nat, texts : Nat]
  BY DEF IInv, TypeInv
<1>3. spent' \in [moves : Nat, starts : Nat, failures : Nat, texts : Nat]
  BY <1>1, <1>2
<1>4. spent.texts + 1 \in Shown
  <2>1. spent.texts \in Nat /\ MaxOutputs \in Nat
    BY <1>2, SessionAssumption
  <2> QED  BY <1>1, <2>1 DEF Shown, Texts
<1>5. tab \in TabSet
  BY <1>4, PaneIs, TabMade
<1> HIDE DEF tab
<1> QED  BY <1>1, <1>3, <1>5, PaneIs, TabMovedIInv

LEMMA ActivateIInv ==
    ASSUME IInv, NEW w \in DOMAIN windows, NEW t \in DOMAIN windows[w].tabs, Activate(w, t)
    PROVE  IInv'
<1> DEFINE win == windows[w]
           new == [win EXCEPT !.active = t - 1]
<1>1. Move /\ windows' = [windows EXCEPT ![w].active = t - 1]
  BY DEF Activate
<1>2. /\ windows \in Seq(WindowSet) /\ w \in 1 .. Len(windows) /\ t \in 1 .. Len(win.tabs)
      /\ win \in [tabs : Seq(TabSet), active : Nat] /\ Len(win.tabs) \in Nat
  BY <1>1, MoveIs, PaneIs, WindowTyped
<1>3. windows' = [windows EXCEPT ![w] = new]
  BY <1>1, <1>2
<1>4. new \in WindowSet
  <2> HIDE DEF win
  <2>1. t - 1 \in Nat /\ t - 1 < Len(win.tabs)
    BY <1>2
  <2>2. new \in [tabs : Seq(TabSet), active : Nat] /\ new.tabs = win.tabs /\ new.active = t - 1
    BY <1>2, <2>1
  <2> HIDE DEF new
  <2> QED  BY <2>1, <2>2 DEF WindowSet
<1> HIDE DEF new
<1>5. windows' \in Seq(WindowSet)
  BY <1>2, <1>3, <1>4, WindowSetTyped
<1> QED  BY <1>1, <1>5, MoveIs, MovedIInv

LEMMA PruneIInv == ASSUME IInv, Prune PROVE IInv'
<1>1. /\ phase' = "running" /\ windows' = Pruned(windows)
      /\ UNCHANGED <<banner, at, disk, failed>> /\ spent' = spent
  BY DEF Prune
<1>2. windows' \in Seq(WindowSet)
  BY <1>1, PrunedTyped DEF IInv, TypeInv
<1>3. spent' \in [moves : Nat, starts : Nat, failures : Nat, texts : Nat]
  BY <1>1 DEF IInv, TypeInv
<1> QED  BY <1>1, <1>2, <1>3, MovedIInv
-----------------------------------------------------------------------------
(* A save, and crashes. *)

LEMMA QuitIInv == ASSUME IInv, Quit PROVE IInv'
<1>1. /\ phase = "running" /\ phase' = "saving" /\ UNCHANGED <<windows, banner, at, files, json, saved, failed, spent>>
      /\ mixed' = (mixed \/ json # NoSession \/ files # NoFiles)
  BY DEF Quit
<1>2. TypeInv'
  BY <1>1 DEF IInv, TypeInv
<1>3. DiskInv'
  <2>1. ~mixed' => ~mixed /\ json = NoSession /\ files = NoFiles
    BY <1>1, Zenon
  <2>2. files = NoFiles => DOMAIN files = {}
    BY DEF NoFiles
  <2> QED  BY <1>1, <2>1, <2>2 DEF IInv, DiskInv, FilesOf
<1> QED  BY <1>1, <1>2, <1>3 DEF IInv, RestoreInv

(* The next pane has its number alone, so that the file is its own. *)
LEMMA WrittenOwn ==
    ASSUME NEW ws \in Seq(WindowSet), FilesOf(ws), NEW x \in Panes(ws), NumberOf(ws, x) = number,
           NEW text \in {Torn, TextAt(ws, x)}, files' = Written(text)
    PROVE  \A y \in Panes(ws) : NumberOf(ws, y) \in DOMAIN files' => files'[NumberOf(ws, y)] \in {Torn, TextAt(ws, y)}
<1> SUFFICES ASSUME NEW y \in Panes(ws), NumberOf(ws, y) \in DOMAIN files'
             PROVE  files'[NumberOf(ws, y)] \in {Torn, TextAt(ws, y)}
  OBVIOUS
<1>1. CASE NumberOf(ws, y) = number
  <2>1. x = y
    BY <1>1, OwnNumber
  <2> QED  BY <1>1, <2>1 DEF Written
<1>2. CASE NumberOf(ws, y) # number
  BY <1>2 DEF Written, FilesOf
<1> QED  BY <1>1, <1>2

LEMMA SavePaneIInv == ASSUME IInv, SavePane PROVE IInv'
<1>1. /\ phase = "saving" /\ phase' = "saving"
      /\ UNCHANGED <<windows, banner, at, mixed, failed, spent, json, saved>>
  BY DEF SavePane, Saving
<1>2. PICK x \in Panes(windows) :
        /\ NumberOf(windows, x) = number
        /\ \/ UNCHANGED files
           \/ /\ TextAt(windows, x) # Blank
              /\ \E text \in {Torn, TextAt(windows, x)} : files' = Written(text)
  BY DEF SavePane
<1>3. windows \in Seq(WindowSet)
  BY DEF IInv, TypeInv
<1>4. TextAt(windows, x) \in Shown
  <2>1. PICK w \in 1 .. Len(windows) : \E t \in 1 .. Len(windows[w].tabs) : \E q \in DOMAIN windows[w].tabs[t] : x = <<w, t, q>>
    BY <1>3, PanesIs
  <2>2. PICK t \in 1 .. Len(windows[w].tabs) : \E q \in DOMAIN windows[w].tabs[t] : x = <<w, t, q>>
    BY <2>1
  <2>3. PICK q \in DOMAIN windows[w].tabs[t] : x = <<w, t, q>>
    BY <2>2
  <2>4. windows[w].tabs[t] \in [DOMAIN windows[w].tabs[t] -> Shown]
    BY <1>3, WindowTyped, TabTyped
  <2> QED  BY <2>3, <2>4 DEF TextAt
<1>5. \A n \in DOMAIN files' : files'[n] \in Texts \cup {Torn}
  <2>1. CASE files' = files
    BY <2>1 DEF IInv, TypeInv
  <2>2. CASE files' # files
    <3>1. PICK text \in {Torn, TextAt(windows, x)} : files' = Written(text) /\ TextAt(windows, x) # Blank
      BY <1>2, <2>2
    <3>2. text \in Texts \cup {Torn}
      BY <1>4, <3>1 DEF Shown
    <3> QED  BY <3>1, <3>2 DEF Written, IInv, TypeInv
  <2> QED  BY <2>1, <2>2
<1>6. TypeInv'
  BY <1>1, <1>5 DEF IInv, TypeInv
<1>7. ASSUME ~mixed PROVE json = NoSession /\ FilesOf(windows)'
  <2>1. json = NoSession /\ FilesOf(windows)
    BY <1>1, <1>7 DEF IInv, DiskInv
  <2>2. CASE files' = files
    BY <1>1, <2>1, <2>2 DEF FilesOf
  <2>3. CASE files' # files
    <3>1. PICK text \in {Torn, TextAt(windows, x)} : files' = Written(text)
      BY <1>2, <2>3
    <3> QED  BY <1>1, <1>2, <1>3, <2>1, <3>1, WrittenOwn DEF FilesOf
  <2> QED  BY <2>1, <2>2, <2>3
<1>8. DiskInv'
  <2>1. json' = NoSession \/ json' = [there |-> TRUE, windows |-> Numbered(saved')]
    BY <1>1 DEF IInv, DiskInv
  <2> QED  BY <1>1, <1>7, <2>1 DEF DiskInv
<1> QED  BY <1>1, <1>6, <1>8 DEF IInv, RestoreInv

LEMMA OffIs ==
    ASSUME IInv, Off, UNCHANGED spent
    PROVE  /\ phase' = "off"
           /\ saved' \in Seq(WindowSet) /\ (\A n \in DOMAIN files' : files'[n] \in Texts \cup {Torn}) => TypeInv'
<1>1. <<>> \in Seq(WindowSet)
  OBVIOUS
<1> QED  BY <1>1, BlankIs, NowhereTyped DEF IInv, TypeInv, Off

LEMMA NoNoSession == ASSUME NEW ws PROVE [there |-> TRUE, windows |-> ws] # NoSession
<1>1. [there |-> TRUE, windows |-> ws].there # NoSession.there
  BY DEF NoSession
<1> QED  BY <1>1

LEMMA SaveJsonIInv == ASSUME IInv, SaveJson PROVE IInv'
<1>1. /\ phase = "saving" /\ json' = [there |-> TRUE, windows |-> Numbered(windows)] /\ saved' = windows
      /\ Off /\ files' = files /\ mixed' = mixed /\ spent' = spent
  BY DEF SaveJson
<1>2. phase' = "off" /\ TypeInv'
  BY <1>1, OffIs DEF IInv, TypeInv
<1>3. DiskInv'
  BY <1>1, <1>2 DEF IInv, DiskInv, FilesOf
<1> QED  BY <1>2, <1>3 DEF IInv, RestoreInv

LEMMA CrashIInv == ASSUME IInv, Crash PROVE IInv'
<1>1. /\ Off /\ json' = json /\ saved' = saved /\ mixed' = mixed /\ spent' = spent
      /\ files' = files \/ (phase = "saving" /\ files' = Written(Torn))
  BY DEF Crash
<1>2. \A n \in DOMAIN files' : files'[n] \in Texts \cup {Torn}
  BY <1>1 DEF Written, IInv, TypeInv
<1>3. phase' = "off" /\ TypeInv'
  BY <1>1, <1>2, OffIs DEF IInv, TypeInv
<1>4. DiskInv'
  <2>1. json' # NoSession /\ ~mixed' => files' = files
    BY <1>1 DEF IInv, DiskInv
  <2> QED  BY <1>1, <1>3, <2>1 DEF IInv, DiskInv, FilesOf
<1> QED  BY <1>3, <1>4 DEF IInv, RestoreInv
-----------------------------------------------------------------------------
(* A restore. *)

LEMMA CountIs ==
    ASSUME NEW win, win.tabs \in Seq(TabSet)
    PROVE  /\ Count(win, 0) = 0
           /\ Count(win, Len(win.tabs)) = Len(Filled(win))
           /\ \A n \in 0 .. Len(win.tabs) : Count(win, n) \in Nat /\ Count(win, n) <= Len(Filled(win))
           /\ \A n \in 0 .. Len(win.tabs) : 1 .. n \subseteq WithPanes(win) => n <= Len(Filled(win))
           /\ \A n \in 1 .. Len(win.tabs) :
                IF n \in WithPanes(win)
                THEN Count(win, n) = Count(win, n - 1) + 1 /\ Filled(win)[Count(win, n)] = win.tabs[n]
                ELSE Count(win, n) = Count(win, n - 1)
<1> DEFINE list == win.tabs
           kept == WithPanes(win)
           n == Len(list)
           k == Keeping(list, kept)
<1>1. list \in Seq(TabSet) /\ n \in Nat
  OBVIOUS
<1>2. Filled(win) = k[n] /\ \A i : Count(win, i) = Len(k[i])
  BY DEF Filled, Kept, Count
<1> HIDE DEF list, kept, n
<1>3. /\ k[0] = <<>>
      /\ \A i \in 0 .. n : k[i] \in Seq(KeptSet(list, kept))
      /\ \A i \in 1 .. n : k[i] = IF i \in kept THEN Append(k[i - 1], list[i]) ELSE k[i - 1]
  BY <1>1, KeepingIs DEF n
<1>4. \A i \in 0 .. n : /\ Len(k[i]) \in Nat /\ Len(k[i]) <= Len(k[n])
                        /\ \A t \in 1 .. Len(k[i]) : k[n][t] = k[i][t]
  <2> TAKE i \in 0 .. n
  <2>1. n \in i .. n
    BY <1>1
  <2>2. Len(k[i]) \in Nat /\ Len(k[i]) <= Len(k[n])
    BY <1>1, <2>1, KeepingGrows DEF n
  <2>3. ASSUME NEW t \in 1 .. Len(k[i]) PROVE k[n][t] = k[i][t]
    BY <1>1, <2>1, KeepingSame DEF n
  <2> HIDE DEF k
  <2> QED  BY <2>2, <2>3
<1>5. \A i \in 0 .. n : 1 .. i \subseteq kept => Len(k[i]) = i
  BY <1>1, KeepingAll DEF n
<1> HIDE DEF k
<1>6. ASSUME NEW i \in 1 .. n
      PROVE  IF i \in kept THEN Len(k[i]) = Len(k[i - 1]) + 1 /\ k[n][Len(k[i])] = list[i]
             ELSE Len(k[i]) = Len(k[i - 1])
  <2>1. i \in 0 .. n /\ i - 1 \in 0 .. n
    BY <1>1
  <2>2. CASE i \in kept
    <3> DEFINE old == k[i - 1]
    <3>1. k[i] = Append(old, list[i]) /\ old \in Seq(KeptSet(list, kept)) /\ Len(old) \in Nat
      BY <1>3, <1>4, <2>1, <2>2
    <3> HIDE DEF old
    <3>2. Len(Append(old, list[i])) = Len(old) + 1 /\ Append(old, list[i])[Len(old) + 1] = list[i]
      BY <3>1
    <3>3. Len(k[i]) \in 1 .. Len(k[i])
      BY <3>1, <3>2
    <3>4. k[n][Len(k[i])] = k[i][Len(k[i])]
      BY <1>4, <2>1, <3>3
    <3> QED  BY <2>2, <3>1, <3>2, <3>4 DEF old
  <2>3. CASE i \notin kept
    BY <1>3, <2>3
  <2> QED  BY <2>2, <2>3
<1>7. 0 \in 0 .. n /\ Len(<<>>) = 0
  BY <1>1
<1>8. \A i \in 0 .. n : 1 .. i \subseteq kept => i <= Len(k[n])
  BY <1>4, <1>5
<1>9. Count(win, 0) = 0 /\ Count(win, n) = Len(Filled(win))
  BY <1>2, <1>3, <1>7
<1>10. \A i \in 0 .. n : Count(win, i) \in Nat /\ Count(win, i) <= Len(Filled(win))
  BY <1>2, <1>4
<1>11. \A i \in 0 .. n : 1 .. i \subseteq kept => i <= Len(Filled(win))
  BY <1>2, <1>8
<1>12. \A i \in 1 .. n : IF i \in kept
                        THEN Count(win, i) = Count(win, i - 1) + 1 /\ Filled(win)[Count(win, i)] = list[i]
                        ELSE Count(win, i) = Count(win, i - 1)
  BY <1>2, <1>6
<1> QED  BY <1>9, <1>10, <1>11, <1>12 DEF list, kept, n

LEMMA JsonIs ==
    ASSUME IInv, json # NoSession
    PROVE  /\ json.windows = Numbered(saved) /\ saved \in Seq(WindowSet)
           /\ Len(json.windows) = Len(saved) /\ Len(saved) \in Nat
           /\ \A w \in 1 .. Len(saved) :
                /\ json.windows[w].active = saved[w].active
                /\ Len(json.windows[w].tabs) = Len(saved[w].tabs)
                /\ \A t \in 1 .. Len(saved[w].tabs) :
                    /\ DOMAIN json.windows[w].tabs[t] = DOMAIN saved[w].tabs[t]
                    /\ \A q \in DOMAIN saved[w].tabs[t] :
                        json.windows[w].tabs[t][q] = NumberOf(saved, <<w, t, q>>)
<1>1. saved \in Seq(WindowSet) /\ json = [there |-> TRUE, windows |-> Numbered(saved)]
  BY DEF IInv, TypeInv, DiskInv
<1>2. json.windows = Numbered(saved)
  BY <1>1
<1>3. Len(saved) \in Nat
  BY <1>1
<1> QED  BY <1>1, <1>2, <1>3, NumberedIs

(* The banner for a part of a tab is of the first pane of that part.       *)
BannerAt(w, t, p) == BannerFor(json.windows[w].tabs[t][FirstLeaf(json.windows[w].tabs[t], p)])

LEMMA BannerAtOwn ==
    ASSUME IInv, json # NoSession, ~mixed, NEW w \in 1 .. Len(saved), NEW t \in 1 .. Len(saved[w].tabs),
           NEW p \in Paths, Below(DOMAIN saved[w].tabs[t], p)
    PROVE  BannerAt(w, t, p) \in {Blank, saved[w].tabs[t][FirstLeaf(saved[w].tabs[t], p)]}
<1> DEFINE orig == saved[w].tabs[t]
           jt == json.windows[w].tabs[t]
           l == FirstLeaf(orig, p)
<1>1. saved \in Seq(WindowSet) /\ DOMAIN jt = DOMAIN orig /\ \A q \in DOMAIN orig : jt[q] = NumberOf(saved, <<w, t, q>>)
  BY JsonIs
<1>2. Tree(DOMAIN orig)
  BY <1>1, WindowTyped
<1> HIDE DEF jt, orig
<1>3. FirstLeaf(jt, p) = l
  BY <1>1, FirstLeafSame
<1>4. l \in DOMAIN orig
  BY <1>2, FirstLeafIs DEF Leaf, orig
<1> HIDE DEF l
<1>5. <<w, t, l>> \in Panes(saved)
  BY <1>1, <1>4, PanesIs DEF orig
<1>6. FilesOf(saved)
  BY DEF IInv, DiskInv
<1>7. BannerFor(NumberOf(saved, <<w, t, l>>)) \in {Blank, TextAt(saved, <<w, t, l>>)}
  BY <1>5, <1>6, BannerForOwn
<1>8. TextAt(saved, <<w, t, l>>) = orig[l]
  BY DEF TextAt, orig
<1> QED  BY <1>1, <1>3, <1>4, <1>7, <1>8 DEF BannerAt, jt, orig, l

(* A tab begins with its first pane. *)
LEMMA BegunOK ==
    ASSUME NEW orig, Tree(DOMAIN orig), DOMAIN orig # {}, NEW tab, DOMAIN tab = DOMAIN orig, NEW text, NEW all, NEW own,
           own => text \in {Blank, orig[FirstLeaf(orig, <<>>)]}
    PROVE  TabOK(Single(text), orig, IF IsSplit(tab, <<>>) THEN <<<<>>>> ELSE <<>>, all, own)
<1>1. DOMAIN orig \in SUBSET Paths /\ <<>> \in Paths /\ \A p \in Paths : Ext(<<>>, p)
  BY EmptyPath DEF Tree
<1>2. DOMAIN Single(text) = {<<>>} /\ Single(text)[<<>>] = text
  BY DEF Single
<1>3. PartOf(Single(text), orig)
  BY <1>1, <1>2 DEF PartOf, Below
<1>4. own => OwnTexts(Single(text), orig)
  BY <1>2 DEF OwnTexts
<1>5. IsSplit(tab, <<>>) <=> <<>> \notin DOMAIN orig
  BY <1>1, UnderExt DEF IsSplit
<1>6. Pending(Single(text), orig, IF IsSplit(tab, <<>>) THEN <<<<>>>> ELSE <<>>, all)
  <2> DEFINE todo == IF IsSplit(tab, <<>>) THEN <<<<>>>> ELSE <<>>
  <2>1. CASE <<>> \notin DOMAIN orig
    <3>1. todo = <<<<>>>>
      BY <1>5, <2>1
    <3> HIDE DEF todo
    <3>2. DOMAIN todo = {1} /\ todo[1] = <<>>
      BY <3>1
    <3>3. Range(todo) = {<<>>} /\ IsInjective(todo)
      BY <3>2 DEF Range, IsInjective
    <3> QED  BY <1>2, <2>1, <3>3 DEF Pending, todo
  <2>2. CASE <<>> \in DOMAIN orig
    <3>1. todo = <<>>
      BY <1>5, <2>2
    <3> HIDE DEF todo
    <3>2. DOMAIN todo = {}
      BY <3>1
    <3>3. Range(todo) = {} /\ IsInjective(todo)
      BY <3>2 DEF Range, IsInjective
    <3> QED  BY <1>2, <2>2, <3>3 DEF Pending, todo
  <2> QED  BY <2>1, <2>2
<1> QED  BY <1>3, <1>4, <1>6 DEF TabOK

(* Paths put behind others, none of which they are. *)
LEMMA ConcatPaths ==
    ASSUME NEW s \in Seq(Paths), NEW t \in Seq(Paths)
    PROVE  /\ s \o t \in Seq(Paths)
           /\ \A x : x \in Range(s \o t) <=> x \in Range(s) \/ x \in Range(t)
           /\ IsInjective(s) /\ IsInjective(t) /\ Range(s) \cap Range(t) = {} => IsInjective(s \o t)
<1> DEFINE r == s \o t
           k == Len(s)
           l == Len(t)
<1>1. /\ r \in Seq(Paths) /\ k \in Nat /\ l \in Nat
      /\ DOMAIN s = 1 .. k /\ DOMAIN t = 1 .. l /\ DOMAIN r = 1 .. k + l
      /\ \A i \in 1 .. k + l : r[i] = IF i <= k THEN s[i] ELSE t[i - k]
  BY ConcatProperties, LenProperties
<1>2. Range(r) = Range(s) \cup Range(t)
  BY RangeConcatenation
<1> HIDE DEF r, k, l
<1>3. ASSUME IsInjective(s), IsInjective(t), Range(s) \cap Range(t) = {} PROVE IsInjective(r)
  <2>1. SUFFICES ASSUME NEW i \in 1 .. k + l, NEW j \in 1 .. k + l, r[i] = r[j] PROVE i = j
    BY <1>1 DEF IsInjective
  <2>2. /\ i \in Nat /\ j \in Nat
        /\ (i <= k => i \in DOMAIN s) /\ (~(i <= k) => i - k \in DOMAIN t)
        /\ (j <= k => j \in DOMAIN s) /\ (~(j <= k) => j - k \in DOMAIN t)
    BY <1>1
  <2>3. CASE i <= k /\ j <= k
    BY <1>1, <1>3, <2>1, <2>2, <2>3 DEF IsInjective
  <2>4. CASE ~(i <= k) /\ ~(j <= k)
    <3>1. t[i - k] = t[j - k]
      BY <1>1, <2>1, <2>4
    <3>2. i - k = j - k
      BY <1>3, <2>2, <2>4, <3>1 DEF IsInjective
    <3> QED  BY <1>1, <2>2, <3>2
  <2>5. CASE (i <= k) # (j <= k)
    <3>1. \A a \in DOMAIN s, b \in DOMAIN t : s[a] # t[b]
      BY <1>3 DEF Range
    <3> QED  BY <1>1, <2>1, <2>2, <2>5, <3>1
  <2> QED  BY <2>3, <2>4, <2>5
<1> QED  BY <1>1, <1>2, <1>3 DEF r

LEMMA IfSplitIs ==
    ASSUME NEW tab, NEW p \in Paths
    PROVE  /\ IfSplit(tab, p) \in Seq(Paths) /\ IsInjective(IfSplit(tab, p))
           /\ \A q : q \in Range(IfSplit(tab, p)) <=> q = p /\ IsSplit(tab, p)
<1> DEFINE s == IfSplit(tab, p)
<1>1. CASE IsSplit(tab, p)
  <2>1. s = <<p>>
    BY <1>1 DEF IfSplit
  <2> HIDE DEF s
  <2>2. s \in Seq(Paths) /\ DOMAIN s = {1} /\ s[1] = p
    BY <2>1
  <2>3. IsInjective(s) /\ \A q : q \in Range(s) <=> q = p
    BY <2>2 DEF IsInjective, Range
  <2> QED  BY <1>1, <2>2, <2>3 DEF s
<1>2. CASE ~IsSplit(tab, p)
  <2>1. s = <<>>
    BY <1>2 DEF IfSplit
  <2> HIDE DEF s
  <2>2. s \in Seq(Paths) /\ DOMAIN s = {}
    BY <2>1
  <2>3. IsInjective(s) /\ \A q : q \notin Range(s)
    BY <2>2 DEF IsInjective, Range
  <2> QED  BY <1>2, <2>2, <2>3 DEF s
<1> QED  BY <1>1, <1>2

LEMMA TailIs ==
    ASSUME NEW todo \in Seq(Paths), todo # <<>>, IsInjective(todo)
    PROVE  /\ Head(todo) \in Paths /\ Head(todo) \in Range(todo)
           /\ Tail(todo) \in Seq(Paths) /\ IsInjective(Tail(todo))
           /\ \A q : q \in Range(Tail(todo)) <=> q \in Range(todo) /\ q # Head(todo)
<1> DEFINE r == Tail(todo)
           k == Len(todo)
<1>1. /\ k \in Nat /\ k >= 1 /\ DOMAIN todo = 1 .. k /\ Head(todo) = todo[1] /\ Head(todo) \in Paths
      /\ r \in Seq(Paths) /\ DOMAIN r = 1 .. k - 1 /\ \A i \in 1 .. k - 1 : r[i] = todo[i + 1]
  OBVIOUS
<1> HIDE DEF r, k
<1>2. Head(todo) \in Range(todo)
  BY <1>1 DEF Range
<1>3. IsInjective(r)
  <2>1. \A i, j \in 1 .. k - 1 : i + 1 \in 1 .. k /\ j + 1 \in 1 .. k /\ (i + 1 = j + 1 => i = j)
    BY <1>1
  <2> QED  BY <1>1, <2>1, SMTT(30) DEF IsInjective
<1>4. ASSUME NEW q PROVE q \in Range(r) <=> q \in Range(todo) /\ q # Head(todo)
  <2>1. ASSUME q \in Range(r) PROVE q \in Range(todo) /\ q # Head(todo)
    <3>1. PICK i \in 1 .. k - 1 : q = todo[i + 1]
      BY <1>1, <2>1 DEF Range
    <3>2. i + 1 \in 1 .. k /\ i + 1 # 1 /\ 1 \in 1 .. k
      BY <1>1
    <3> QED  BY <1>1, <3>1, <3>2 DEF Range, IsInjective
  <2>2. ASSUME q \in Range(todo), q # Head(todo) PROVE q \in Range(r)
    <3>1. PICK i \in 1 .. k : q = todo[i]
      BY <1>1, <2>2 DEF Range
    <3>2. i - 1 \in 1 .. k - 1 /\ (i - 1) + 1 = i
      BY <1>1, <2>2, <3>1
    <3>3. r[i - 1] = q
      BY <1>1, <3>1, <3>2
    <3> QED  BY <1>1, <3>2, <3>3 DEF Range
  <2> QED  BY <2>1, <2>2
<1> QED  BY <1>1, <1>2, <1>3, <1>4 DEF r

(* The node split gives way to those of its parts that are split in turn.  *)
LEMMA ToSplitIs ==
    ASSUME NEW tab, NEW todo \in Seq(Paths), todo # <<>>, IsInjective(todo),
           \A s \in Sides : Append(Head(todo), s) \notin Range(todo)
    PROVE  /\ ToSplit(tab, todo) \in Seq(Paths) /\ IsInjective(ToSplit(tab, todo))
           /\ \A q : q \in Range(ToSplit(tab, todo)) <=>
                \/ q \in Range(todo) /\ q # Head(todo)
                \/ \E s \in Sides : q = Append(Head(todo), s) /\ IsSplit(tab, q)
<1> DEFINE l == Append(Head(todo), "left")
           r == Append(Head(todo), "right")
           a == IfSplit(tab, l)
           b == IfSplit(tab, r)
           c == Tail(todo)
           d == a \o b
<1>0. "left" \in Sides /\ "right" \in Sides /\ "left" # "right" /\ \A s \in Sides : s = "left" \/ s = "right"
  BY DEF Sides
<1>1. /\ Head(todo) \in Paths /\ c \in Seq(Paths) /\ IsInjective(c)
      /\ \A q : q \in Range(c) <=> q \in Range(todo) /\ q # Head(todo)
  BY TailIs
<1>2. l \in Paths /\ r \in Paths /\ l # r
  BY <1>0, <1>1, AppendPath, ExtAppend
<1>3. /\ a \in Seq(Paths) /\ IsInjective(a) /\ \A q : q \in Range(a) <=> q = l /\ IsSplit(tab, l)
      /\ b \in Seq(Paths) /\ IsInjective(b) /\ \A q : q \in Range(b) <=> q = r /\ IsSplit(tab, r)
  BY <1>2, IfSplitIs
<1>4. ToSplit(tab, todo) = d \o c
  BY DEF ToSplit
<1> HIDE DEF a, b, c
<1>5. Range(a) \cap Range(b) = {}
  BY <1>2, <1>3
<1>6. /\ d \in Seq(Paths) /\ IsInjective(d)
      /\ \A q : q \in Range(d) <=> q \in Range(a) \/ q \in Range(b)
  BY <1>3, <1>5, ConcatPaths
<1> HIDE DEF d
<1>7. Range(d) \cap Range(c) = {}
  <2>1. l \notin Range(todo) /\ r \notin Range(todo)
    BY <1>0
  <2> HIDE DEF l, r
  <2>2. \A q : q \in Range(d) => q = l \/ q = r
    BY <1>3, <1>6
  <2> QED  BY <1>1, <2>1, <2>2
<1>8. /\ d \o c \in Seq(Paths) /\ IsInjective(d \o c)
      /\ \A q : q \in Range(d \o c) <=> q \in Range(d) \/ q \in Range(c)
  BY <1>1, <1>6, <1>7, ConcatPaths
<1>9. ASSUME NEW q
      PROVE  q \in Range(d) <=> \E s \in Sides : q = Append(Head(todo), s) /\ IsSplit(tab, q)
  <2>1. (\E s \in Sides : q = Append(Head(todo), s) /\ IsSplit(tab, q)) <=> (q = l \/ q = r) /\ IsSplit(tab, q)
    BY <1>0
  <2> HIDE DEF l, r
  <2>2. q \in Range(d) <=> (q = l \/ q = r) /\ IsSplit(tab, q)
    BY <1>3, <1>6
  <2> QED  BY <2>1, <2>2
<1> QED  BY <1>1, <1>4, <1>8, <1>9

LEMMA SplitRightIs ==
    ASSUME NEW D, Tree(D), NEW T, NEW tab \in [D -> T], NEW p \in D, NEW x \in T
    PROVE  /\ SplitTab(tab, p, "right", x) \in [SplitPlaces(D, p) -> T]
           /\ SplitTab(tab, p, "right", x)[Append(p, "right")] = x
           /\ SplitTab(tab, p, "right", x)[Append(p, "left")] = tab[p]
           /\ \A q \in D \ {p} : SplitTab(tab, p, "right", x)[q] = tab[q]
<1> DEFINE side == "right"
<1>1. side \in Sides /\ Other(side) = "left"
  BY DEF Sides, Other
<1>2. Append(p, "right") = Append(p, side) /\ Append(p, "left") = Append(p, Other(side))
  BY <1>1
<1> HIDE DEF side
<1> DEFINE new == SplitTab(tab, p, side, x)
<1>3. new \in [SplitPlaces(D, p) -> T]
  BY <1>1, SplitTabIs
<1>4. new[Append(p, side)] = x
  BY <1>1, <1>3, SplitTabIs
<1>5. new[Append(p, Other(side))] = tab[p]
  BY <1>1, <1>3, SplitTabIs
<1>6. ASSUME NEW q \in D \ {p} PROVE new[q] = tab[q]
  <2>1. q # Append(p, side) /\ q # Append(p, Other(side)) /\ DOMAIN tab = D
    <3>1. \A s \in Sides : Append(p, s) \notin D
      BY SplitPlace
    <3>2. Other(side) \in Sides
      BY <1>1, OtherSide
    <3> QED  BY <1>1, <3>1, <3>2
  <2> QED  BY <2>1 DEF SplitTab
<1> QED  BY <1>2, <1>3, <1>4, <1>5, <1>6 DEF side

(* A split of the tab on its way. *)
LEMMA SplitOK ==
    ASSUME NEW D, Tree(D), NEW tab \in [D -> Shown], NEW orig, Tree(DOMAIN orig),
           NEW jt, DOMAIN jt = DOMAIN orig, NEW todo \in Seq(Paths), todo # <<>>, NEW all, NEW own,
           TabOK(tab, orig, todo, all, own), NEW text \in Shown,
           own => text \in {Blank, orig[FirstLeaf(orig, Append(Head(todo), "right"))]}
    PROVE  /\ Head(todo) \in D
           /\ TabOK(SplitTab(tab, Head(todo), "right", text), orig, ToSplit(jt, todo), all, own)
           /\ ToSplit(jt, todo) \in Seq(Paths)
<1> DEFINE node == Head(todo)
           l == Append(node, "left")
           r == Append(node, "right")
           new == SplitTab(tab, node, "right", text)
           O == DOMAIN orig
           E == SplitPlaces(D, node)
           next == ToSplit(jt, todo)
<1>0. "left" \in Sides /\ "right" \in Sides /\ Other("right") = "left" /\ \A s \in Sides : s = "left" \/ s = "right"
  BY DEF Sides, Other
<1>1. PartOf(tab, orig) /\ (own => OwnTexts(tab, orig)) /\ Pending(tab, orig, todo, all)
  BY DEF TabOK
<1>2. /\ Range(todo) \subseteq D \ O /\ IsInjective(todo) /\ (all => D \ O \subseteq Range(todo))
  BY <1>1 DEF Pending
<1>3. node \in Paths /\ node \in Range(todo) /\ node \in D /\ node \notin O
  BY <1>2, TailIs
<1>4. /\ Apart(D) /\ D \in SUBSET Paths /\ O \in SUBSET Paths /\ Apart(O) /\ Full(O)
  BY DEF Tree
<1>5. /\ l \in Paths /\ r \in Paths /\ l \notin D /\ r \notin D /\ l # r
  BY <1>0, <1>3, SplitPlace, ExtAppend
<1>6. /\ new \in [E -> Shown] /\ new[r] = text /\ new[l] = tab[node]
      /\ \A q \in D \ {node} : new[q] = tab[q]
  <2> HIDE DEF node
  <2> DEFINE split == SplitTab(tab, node, "right", text)
  <2>1. split \in [SplitPlaces(D, node) -> Shown]
    BY <1>3, SplitRightIs
  <2>2. split[Append(node, "right")] = text /\ split[Append(node, "left")] = tab[node]
    BY <1>3, <2>1, SplitRightIs
  <2>3. ASSUME NEW q \in D \ {node} PROVE split[q] = tab[q]
    <3>1. q # Append(node, "left") /\ q # Append(node, "right") /\ DOMAIN tab = D
      BY <1>0, <1>3, SplitPlace
    <3> QED  BY <1>0, <3>1 DEF SplitTab
  <2> HIDE DEF split
  <2> QED  BY <2>1, <2>2, <2>3 DEF split, node
<1>7. DOMAIN new = E /\ \A q : q \in E <=> (q \in D /\ q # node) \/ q = l \/ q = r
  BY <1>0, <1>6 DEF SplitPlaces
<1>8. /\ next \in Seq(Paths) /\ IsInjective(next)
      /\ \A q : q \in Range(next) <=> \/ q \in Range(todo) /\ q # node
                                      \/ (q = l \/ q = r) /\ IsSplit(jt, q)
  <2>1. \A s \in Sides : Append(node, s) \notin Range(todo)
    BY <1>0, <1>2, <1>5
  <2> HIDE DEF next
  <2> QED  BY <1>0, <1>2, <2>1, ToSplitIs DEF next
<1>9. Below(O, l) /\ Below(O, r)
  <2>1. Below(O, node)
    BY <1>1, <1>3 DEF PartOf
  <2> QED  BY <1>0, <1>3, <1>4, <2>1 DEF Full
<1>10. IsSplit(jt, l) <=> l \notin O
  <2>1. \A q : q \in Under(jt, l) <=> q \in O /\ Ext(l, q)
    BY <1>4, <1>5, UnderExt
  <2> QED  BY <1>9, <2>1 DEF IsSplit, Below
<1>11. IsSplit(jt, r) <=> r \notin O
  <2>1. \A q : q \in Under(jt, r) <=> q \in O /\ Ext(r, q)
    BY <1>4, <1>5, UnderExt
  <2> QED  BY <1>9, <2>1 DEF IsSplit, Below
<1>12. \A p \in Paths : Ext(node, p) /\ node # p => Ext(l, p) \/ Ext(r, p)
  BY <1>0, <1>3, ExtAppend
<1>13. FirstLeaf(orig, l) = FirstLeaf(orig, node)
  <2>1. Leaf(O, l, FirstLeaf(orig, l))
    BY <1>5, <1>9, FirstLeafIs
  <2>2. Leaf(O, node, FirstLeaf(orig, l))
    BY <1>3, <1>4, <2>1, LeafOfLeft
  <2>3. Below(O, node)
    BY <1>1, <1>3 DEF PartOf
  <2> QED  BY <1>3, <2>2, <2>3, FirstLeafIs
<1> HIDE DEF new, E, next, l, r, node
<1>14. PartOf(new, orig)
  <2>1. \A q \in E : Below(O, q)
    BY <1>1, <1>7, <1>9 DEF PartOf, O
  <2>2. ASSUME NEW p \in O PROVE \E q \in E : Ext(q, p)
    <3>1. PICK q \in D : Ext(q, p)
      BY <1>1 DEF PartOf, O
    <3>2. CASE q # node
      BY <1>7, <3>1, <3>2
    <3>3. CASE q = node
      <4>1. Ext(l, p) \/ Ext(r, p)
        BY <1>3, <1>4, <1>12, <3>1, <3>3
      <4> QED  BY <1>7, <4>1
    <3> QED  BY <3>2, <3>3
  <2> QED  BY <1>7, <2>1, <2>2 DEF PartOf, O
<1>15. ASSUME own PROVE OwnTexts(new, orig)
  <2>1. \A q \in D : tab[q] \in {Blank, orig[FirstLeaf(orig, q)]}
    BY <1>1, <1>15 DEF OwnTexts
  <2>2. text \in {Blank, orig[FirstLeaf(orig, r)]}
    BY <1>15 DEF r, node
  <2>3. ASSUME NEW q \in E PROVE new[q] \in {Blank, orig[FirstLeaf(orig, q)]}
    <3>1. CASE q = r
      BY <1>6, <2>2, <3>1
    <3>2. CASE q = l
      BY <1>3, <1>6, <1>13, <2>1, <3>2
    <3>3. CASE q \in D /\ q # node
      BY <1>6, <2>1, <3>3
    <3> QED  BY <1>7, <3>1, <3>2, <3>3
  <2> QED  BY <1>7, <2>3 DEF OwnTexts
<1>16. Pending(new, orig, next, all)
  <2>1. \A q \in Range(next) : q \in E \ O
    BY <1>2, <1>7, <1>8, <1>10, <1>11
  <2>2. all => \A q \in E \ O : q \in Range(next)
    BY <1>2, <1>7, <1>8, <1>10, <1>11
  <2> QED  BY <1>7, <1>8, <2>1, <2>2 DEF Pending, O
<1>17. TabOK(new, orig, next, all, own)
  BY <1>14, <1>15, <1>16 DEF TabOK
<1> QED  BY <1>3, <1>8, <1>17 DEF new, next, node

(* Where a restore is. *)
LEMMA RestoringIs ==
    ASSUME IInv, phase = "restoring"
    PROVE  /\ json # NoSession /\ windows \in Seq(WindowSet) /\ saved \in Seq(WindowSet) /\ at \in Positions
           /\ Len(saved) \in Nat /\ Len(json.windows) = Len(saved)
           /\ at.window \in 0 .. Len(saved) /\ Len(windows) = at.window
           /\ at.window > 0 => /\ at.window \in 1 .. Len(saved) /\ at.window \in 1 .. Len(windows)
                               /\ at.tab \in 0 .. Len(saved[at.window].tabs)
                               /\ Len(json.windows[at.window].tabs) = Len(saved[at.window].tabs)
                               /\ json.windows[at.window].active = saved[at.window].active
           /\ at.todo # <<>> => at.window > 0 /\ at.tab \in WithPanes(saved[at.window])
           /\ \A w \in 1 .. at.window : WindowDone(w)
<1>1. Progress /\ \A w \in 1 .. at.window : WindowDone(w)
  BY DEF IInv, RestoreInv
<1>2. windows \in Seq(WindowSet) /\ at \in Positions
  BY DEF IInv, TypeInv
<1>3. json # NoSession /\ at.window \in 0 .. Len(saved) /\ Len(windows) = at.window
  BY <1>1 DEF Progress
<1>4. /\ saved \in Seq(WindowSet) /\ Len(saved) \in Nat /\ Len(json.windows) = Len(saved)
      /\ \A w \in 1 .. Len(saved) : /\ Len(json.windows[w].tabs) = Len(saved[w].tabs)
                                    /\ json.windows[w].active = saved[w].active
  BY <1>3, JsonIs
<1>5. at.window > 0 => at.window \in 1 .. Len(saved) /\ at.window \in 1 .. Len(windows)
  BY <1>3, <1>4
<1> QED  BY <1>1, <1>2, <1>3, <1>4, <1>5 DEF Progress

(* The active tab of the last window is set. *)
LEMMA ActivatedIs ==
    ASSUME IInv, phase = "restoring"
    PROVE  /\ Activated(windows) \in Seq(WindowSet) /\ Len(Activated(windows)) = Len(windows)
           /\ \A w \in 1 .. Len(windows) :
                /\ Activated(windows)[w].tabs = windows[w].tabs
                /\ Activated(windows)[w].active =
                    IF windows[w].tabs = <<>> THEN 0 ELSE Lower(saved[w].active, Len(windows[w].tabs) - 1)
<1> DEFINE v == at.window
           win == windows[v]
           last == Len(win.tabs) - 1
           idx == saved[v].active
           good(vs, w) == /\ vs[w].tabs = windows[w].tabs
                          /\ vs[w].active = IF windows[w].tabs = <<>> THEN 0
                                            ELSE Lower(saved[w].active, Len(windows[w].tabs) - 1)
<1>1. /\ windows \in Seq(WindowSet) /\ saved \in Seq(WindowSet) /\ Len(windows) = v /\ v \in Nat
      /\ v > 0 => v \in 1 .. Len(saved) /\ v \in 1 .. Len(windows) /\ json.windows[v].active = idx
      /\ \A w \in 1 .. v : WindowDone(w)
  BY RestoringIs
<1>2. ASSUME NEW w \in 1 .. v, w # v \/ windows[w].tabs = <<>> PROVE good(windows, w)
  BY <1>1, <1>2 DEF WindowDone, ActiveOK
<1>3. CASE v = 0
  <2>1. Activated(windows) = windows
    BY <1>3 DEF Activated
  <2> QED  BY <1>1, <1>3, <2>1
<1>4. CASE v > 0
  <2>1. win \in [tabs : Seq(TabSet), active : Nat] /\ Len(win.tabs) \in Nat /\ (last < 0 <=> win.tabs = <<>>) /\ idx \in Nat
    BY <1>1, <1>4, WindowTyped
  <2>2. CASE last < 0
    <3>1. Activated(windows) = windows
      BY <2>2 DEF Activated
    <3>2. \A w \in 1 .. v : good(windows, w)
      BY <1>2, <2>1, <2>2
    <3> HIDE DEF good
    <3> QED  BY <1>1, <3>1, <3>2 DEF good
  <2>3. CASE ~(last < 0)
    <3> DEFINE low == Lower(idx, last)
               new == [win EXCEPT !.active = low]
               vs == Activated(windows)
    <3>1. vs = [windows EXCEPT ![v].active = low]
      <4>1. ~(at.window = 0 \/ Len(windows[at.window].tabs) - 1 < 0)
        BY <1>4, <2>3
      <4>2. json.windows[at.window].active = idx
        BY <1>1, <1>4
      <4> QED  BY <4>1, <4>2 DEF Activated, Lower
    <3>2. vs = [windows EXCEPT ![v] = new]
      BY <1>1, <1>4, <3>1
    <3>3. low \in Nat /\ low < Len(win.tabs)
      <4> HIDE DEF idx, win
      <4> QED  BY <2>1, <2>3 DEF Lower
    <3> HIDE DEF low
    <3>4. new \in [tabs : Seq(TabSet), active : Nat] /\ new.tabs = win.tabs /\ new.active = low
      <4> HIDE DEF win
      <4> QED  BY <2>1, <3>3
    <3> HIDE DEF new
    <3>5. new \in WindowSet
      BY <3>3, <3>4 DEF WindowSet
    <3> HIDE DEF vs
    <3>6. vs \in Seq(WindowSet) /\ Len(vs) = Len(windows) /\ vs[v] = new /\ \A w \in 1 .. Len(windows) : w # v => vs[w] = windows[w]
      BY <1>1, <1>4, <3>2, <3>5, WindowSetTyped
    <3>7. good(vs, v)
      BY <2>1, <2>3, <3>4, <3>6 DEF low
    <3>8. ASSUME NEW w \in 1 .. v, w # v PROVE good(vs, w)
      <4>1. good(windows, w)
        BY <1>2, <3>8
      <4> QED  BY <1>1, <3>6, <3>8, <4>1
    <3> HIDE DEF good
    <3>9. \A w \in 1 .. Len(windows) : good(vs, w)
      BY <1>1, <3>7, <3>8
    <3> QED  BY <3>6, <3>9 DEF vs, good
  <2> QED  BY <2>2, <2>3
<1> QED  BY <1>1, <1>3, <1>4

(* Less is asked of a tab once a split of it failed. *)
LEMMA TabWeaker ==
    ASSUME NEW tab, NEW orig, NEW todo, NEW own, NEW all, TabOK(tab, orig, todo, all, own),
           NEW some, some => all
    PROVE  TabOK(tab, orig, todo, some, own) /\ TabOK(tab, orig, <<>>, FALSE, own)
<1>1. DOMAIN <<>> = {} /\ Range(<<>>) = {} /\ IsInjective(<<>>)
  BY DEF Range, IsInjective
<1> QED  BY <1>1 DEF TabOK, Pending

(* What a step of the restore does not touch stays as it is. *)
LEMMA WindowKept ==
    ASSUME NEW w, WindowDone(w), saved' = saved, mixed' = mixed, windows'[w].tabs = windows[w].tabs,
           Opened(w)' = Opened(w), ActiveOK(w)', at'.whole = at.whole,
           \A t \in 1 .. Opened(w) : Todo(w, t)' = Todo(w, t)
    PROVE  WindowDone(w)'
<1>1. Len(windows'[w].tabs) = Opened(w)'
  BY DEF WindowDone
<1>2. ASSUME NEW t \in 1 .. Opened(w)
      PROVE  TabOK(windows'[w].tabs[t], Filled(saved'[w])[t], Todo(w, t)', at'.whole, ~mixed')
  BY DEF WindowDone
<1> QED  BY <1>1, <1>2 DEF WindowDone

LEMMA RestoreWindowIInv == ASSUME IInv, RestoreWindow PROVE IInv'
<1> DEFINE v == at.window
           blank == [tabs |-> <<>>, active |-> 0]
           vs == Activated(windows)
<1>1. /\ phase = "restoring" /\ at.todo = <<>> /\ TabsDone /\ v < Len(json.windows)
      /\ windows' = Append(vs, blank)
      /\ at' = [at EXCEPT !.window = v + 1, !.tab = 0]
      /\ UNCHANGED <<phase, banner, files, json, saved, mixed, failed, spent>>
  BY DEF RestoreWindow, Restoring, disk
<1>2. /\ json # NoSession /\ saved \in Seq(WindowSet) /\ at \in Positions /\ Len(saved) \in Nat
      /\ Len(json.windows) = Len(saved) /\ v \in 0 .. Len(saved) /\ Len(windows) = v
      /\ v > 0 => at.tab = Len(saved[v].tabs)
      /\ \A w \in 1 .. v : WindowDone(w)
  BY <1>1, RestoringIs DEF TabsDone
<1>3. /\ vs \in Seq(WindowSet) /\ Len(vs) = v
      /\ \A w \in 1 .. v :
            /\ vs[w].tabs = windows[w].tabs
            /\ vs[w].active = IF windows[w].tabs = <<>> THEN 0 ELSE Lower(saved[w].active, Len(windows[w].tabs) - 1)
  BY <1>1, <1>2, ActivatedIs
<1>4. blank \in WindowSet
  <2>1. <<>> \in Seq(TabSet) /\ 0 \in Nat
    OBVIOUS
  <2> QED  BY <2>1 DEF WindowSet
<1>5. /\ at' \in Positions /\ at'.window = v + 1 /\ at'.tab = 0 /\ at'.todo = <<>> /\ at'.whole = at.whole
  <2>1. v \in Nat /\ at \in [window : Nat, tab : Nat, todo : Seq(Paths), whole : BOOLEAN]
    BY <1>2 DEF Positions
  <2>2. v + 1 \in Nat
    BY <2>1
  <2> DEFINE next == v + 1
  <2> HIDE DEF next
  <2>3. at' = [at EXCEPT !.window = next, !.tab = 0] /\ next \in Nat /\ 0 \in Nat
    BY <1>1, <2>2 DEF next
  <2>4. /\ at' \in Positions /\ at'.window = next /\ at'.tab = 0 /\ at'.todo = at.todo /\ at'.whole = at.whole
    BY <2>1, <2>3 DEF Positions
  <2> QED  BY <1>1, <2>4 DEF next
<1> HIDE DEF vs, blank
<1>6. /\ windows' \in Seq(WindowSet) /\ Len(windows') = v + 1 /\ windows'[v + 1] = blank
      /\ \A w \in 1 .. v : windows'[w] = vs[w]
  BY <1>1, <1>2, <1>3, <1>4
<1>7. TypeInv'
  BY <1>1, <1>5, <1>6 DEF IInv, TypeInv
<1>8. DiskInv'
  BY <1>1, SameDisk DEF IInv, disk
<1>9. v + 1 \in 1 .. Len(saved)
  BY <1>1, <1>2
<1>10. Progress'
  <2>1. 0 \in 0 .. Len(saved[v + 1].tabs)
    BY <1>2, <1>9, WindowTyped
  <2> QED  BY <1>1, <1>2, <1>5, <1>6, <1>9, <2>1 DEF Progress
<1>11. ASSUME NEW w \in 1 .. v PROVE WindowDone(w)'
  <2>1. w # v + 1 /\ w < v + 1 /\ (w < v \/ w = v)
    BY <1>2
  <2>2. Opened(w)' = Opened(w)
    BY <1>1, <1>2, <1>5, <2>1 DEF Opened, Tried
  <2>3. ActiveOK(w)'
    BY <1>1, <1>3, <1>5, <1>6, <2>1 DEF ActiveOK
  <2>4. \A t : Todo(w, t) = <<>> /\ Todo(w, t)' = <<>>
    BY <1>1, <1>5 DEF Todo
  <2> QED  BY <1>1, <1>2, <1>3, <1>5, <1>6, <2>2, <2>3, <2>4, WindowKept
<1>12. ASSUME NEW w, w = v + 1 PROVE WindowDone(w)'
  <2>1. Opened(w)' = 0
    <3>1. Opened(w)' = Count(saved[w], 0)
      BY <1>1, <1>2, <1>5, <1>12 DEF Opened, Tried
    <3>2. saved[w].tabs \in Seq(TabSet)
      BY <1>2, <1>9, <1>12, WindowTyped
    <3> QED  BY <3>1, <3>2, CountIs
  <2>2. windows'[w].tabs = <<>> /\ windows'[w].active = 0
    BY <1>6, <1>12 DEF blank
  <2>3. ActiveOK(w)'
    BY <2>2 DEF ActiveOK
  <2>4. Len(windows'[w].tabs) = Opened(w)'
    BY <2>1, <2>2
  <2> QED  BY <2>1, <2>3, <2>4 DEF WindowDone
<1>13. RestoreInv'
  <2>1. ASSUME NEW w \in 1 .. at'.window PROVE WindowDone(w)'
    <3>1. w \in 1 .. v \/ w = v + 1
      BY <1>2, <1>5
    <3> QED  BY <1>11, <1>12, <3>1
  <2> QED  BY <1>10, <2>1 DEF RestoreInv
<1> QED  BY <1>7, <1>8, <1>13 DEF IInv

(* The tab tried next. *)
LEMMA NextTabIs ==
    ASSUME IInv, phase = "restoring", ~TabsDone
    PROVE  /\ at.window \in 1 .. Len(saved) /\ at.window \in 1 .. Len(windows) /\ Len(windows) = at.window
           /\ at.tab \in Nat /\ at.tab + 1 \in 1 .. Len(saved[at.window].tabs)
           /\ saved[at.window].tabs \in Seq(TabSet)
           /\ DOMAIN json.windows[at.window].tabs[at.tab + 1] = DOMAIN saved[at.window].tabs[at.tab + 1]
           /\ Tree(DOMAIN saved[at.window].tabs[at.tab + 1])
           /\ BannerAt(at.window, at.tab + 1, <<>>) \in Shown
           /\ ~mixed /\ DOMAIN saved[at.window].tabs[at.tab + 1] # {} =>
                BannerAt(at.window, at.tab + 1, <<>>) \in
                    {Blank, saved[at.window].tabs[at.tab + 1][FirstLeaf(saved[at.window].tabs[at.tab + 1], <<>>)]}
<1> DEFINE v == at.window
           n == at.tab + 1
           orig == saved[v].tabs[n]
<1>1. /\ json # NoSession /\ saved \in Seq(WindowSet) /\ at \in Positions
      /\ v > 0 => /\ v \in 1 .. Len(saved) /\ v \in 1 .. Len(windows)
                  /\ at.tab \in 0 .. Len(saved[v].tabs)
                  /\ Len(json.windows[v].tabs) = Len(saved[v].tabs)
      /\ Len(windows) = v
  BY RestoringIs
<1>2. v > 0 /\ at.tab # Len(json.windows[v].tabs)
  BY DEF TabsDone
<1>3. saved[v].tabs \in Seq(TabSet) /\ Len(saved[v].tabs) \in Nat
  BY <1>1, <1>2, WindowTyped
<1>4. at.tab \in Nat /\ n \in 1 .. Len(saved[v].tabs)
  BY <1>1, <1>2, <1>3
<1>5. DOMAIN json.windows[v].tabs[n] = DOMAIN orig
  BY <1>1, <1>2, <1>4, JsonIs
<1>6. Tree(DOMAIN orig)
  BY <1>1, <1>2, <1>4, WindowTyped
<1>7. BannerAt(v, n, <<>>) \in Shown
  BY BannerForTyped DEF BannerAt, IInv
<1>8. ASSUME ~mixed, DOMAIN orig # {} PROVE BannerAt(v, n, <<>>) \in {Blank, orig[FirstLeaf(orig, <<>>)]}
  <2>1. <<>> \in Paths /\ Below(DOMAIN orig, <<>>)
    BY <1>6, <1>8, EmptyPath DEF Below, Tree
  <2> HIDE DEF n, v
  <2> QED  BY <1>1, <1>2, <1>4, <1>8, <2>1, BannerAtOwn
<1> QED  BY <1>1, <1>2, <1>3, <1>4, <1>5, <1>6, <1>7, <1>8

LEMMA RestoreTabIInv == ASSUME IInv, RestoreTab PROVE IInv'
<1> DEFINE v == at.window
           n == at.tab + 1
           orig == saved[v].tabs[n]
           tab == json.windows[v].tabs[n]
           todo == IF IsSplit(tab, <<>>) THEN <<<<>>>> ELSE <<>>
           text == BannerAt(v, n, <<>>)
<1>1. /\ phase = "restoring" /\ at.todo = <<>> /\ ~TabsDone
      /\ at' = [at EXCEPT !.tab = n, !.todo = todo]
      /\ UNCHANGED <<phase, files, json, saved, mixed, spent>>
      /\ IF DOMAIN tab = {} THEN UNCHANGED <<windows, banner, failed>>
         ELSE /\ windows' = [windows EXCEPT ![v].tabs = Append(@, Single(text))]
              /\ banner' = Blank /\ failed' = FALSE
  BY DEF RestoreTab, Restoring, BannerAfter, BannerAt, disk
<1>2. /\ json # NoSession /\ windows \in Seq(WindowSet) /\ saved \in Seq(WindowSet) /\ at \in Positions
      /\ v \in 0 .. Len(saved) /\ Len(windows) = v /\ \A w \in 1 .. v : WindowDone(w)
  BY <1>1, RestoringIs
<1>3. /\ v \in 1 .. Len(saved) /\ v \in 1 .. Len(windows)
      /\ at.tab \in Nat /\ n \in 1 .. Len(saved[v].tabs) /\ saved[v].tabs \in Seq(TabSet)
      /\ DOMAIN tab = DOMAIN orig /\ Tree(DOMAIN orig) /\ text \in Shown
      /\ ~mixed /\ DOMAIN orig # {} => text \in {Blank, orig[FirstLeaf(orig, <<>>)]}
  BY <1>1, NextTabIs
<1>4. todo \in Seq(Paths)
  <2>1. <<>> \in Seq(Paths) /\ (<<>> \in Paths => <<<<>>>> \in Seq(Paths))
    OBVIOUS
  <2> QED  BY <2>1, EmptyPath
<1>5. /\ at' \in Positions /\ at'.window = v /\ at'.tab = n /\ at'.todo = todo /\ at'.whole = at.whole
  <2>1. n \in Nat /\ at \in [window : Nat, tab : Nat, todo : Seq(Paths), whole : BOOLEAN]
    BY <1>2, <1>3 DEF Positions
  <2> HIDE DEF todo, n
  <2> QED  BY <1>1, <1>4, <2>1 DEF Positions
<1>6. /\ Count(saved[v], n) = IF DOMAIN orig # {} THEN Count(saved[v], n - 1) + 1 ELSE Count(saved[v], n - 1)
      /\ DOMAIN orig # {} => Filled(saved[v])[Count(saved[v], n)] = orig
      /\ n \in WithPanes(saved[v]) <=> DOMAIN orig # {}
      /\ Count(saved[v], n - 1) \in Nat /\ n - 1 = at.tab
  <2>1. n \in WithPanes(saved[v]) <=> DOMAIN orig # {}
    BY <1>3, WithPanesIs
  <2>2. n - 1 = at.tab /\ n - 1 \in 0 .. Len(saved[v].tabs)
    BY <1>3
  <2> HIDE DEF n
  <2>3. IF n \in WithPanes(saved[v])
        THEN Count(saved[v], n) = Count(saved[v], n - 1) + 1 /\ Filled(saved[v])[Count(saved[v], n)] = saved[v].tabs[n]
        ELSE Count(saved[v], n) = Count(saved[v], n - 1)
    BY <1>3, CountIs
  <2>4. Count(saved[v], n - 1) \in Nat
    BY <1>3, <2>2, CountIs
  <2> QED  BY <2>1, <2>2, <2>3, <2>4
<1>7. DiskInv'
  BY <1>1, SameDisk DEF IInv, disk
<1>8. \A w \in 1 .. v : Tried(w)' = IF w = v THEN n ELSE Tried(w)
  <2>1. \A w \in 1 .. v : w < v \/ (w = v /\ ~(w < v))
    BY <1>2
  <2> HIDE DEF n, todo
  <2> QED  BY <1>1, <1>2, <1>5, <2>1 DEF Tried
<1>9. \A w \in 1 .. v : Opened(w)' = IF w = v THEN Count(saved[w], n) ELSE Opened(w)
  BY <1>1, <1>8 DEF Opened
<1>10. Opened(v) = Count(saved[v], n - 1)
  <2>1. Tried(v) = at.tab
    BY <1>3 DEF Tried
  <2> QED  BY <1>6, <2>1 DEF Opened
<1>11. Len(windows') = Len(windows) /\ DOMAIN orig = {} => Progress' /\ todo = <<>>
  <2>1. ASSUME DOMAIN orig = {} PROVE todo = <<>>
    <3>1. ~IsSplit(tab, <<>>)
      BY <1>3, <2>1 DEF IsSplit, Under
    <3> QED  BY <3>1
  <2>2. n \in 0 .. Len(saved[v].tabs) /\ v > 0
    BY <1>3
  <2> HIDE DEF todo, n
  <2> QED  BY <1>1, <1>2, <1>5, <2>1, <2>2 DEF Progress
<1>12. Len(windows') = Len(windows) /\ DOMAIN orig # {} => Progress'
  <2>1. n \in 0 .. Len(saved[v].tabs) /\ v > 0
    BY <1>3
  <2> HIDE DEF todo, n
  <2> QED  BY <1>1, <1>2, <1>5, <1>6, <2>1 DEF Progress
<1>13. CASE DOMAIN orig = {}
  <2>1. windows' = windows /\ banner' = banner /\ failed' = failed
    BY <1>1, <1>3, <1>13
  <2>2. TypeInv'
    BY <1>1, <1>5, <2>1 DEF IInv, TypeInv
  <2>3. ASSUME NEW w \in 1 .. v PROVE WindowDone(w)'
    <3>1. Opened(w)' = Opened(w)
      BY <1>6, <1>9, <1>10, <1>13
    <3>2. ActiveOK(w)'
      BY <1>1, <1>2, <1>5, <2>1 DEF WindowDone, ActiveOK
    <3>3. \A t : Todo(w, t) = <<>> /\ Todo(w, t)' = <<>>
      BY <1>1, <1>5, <1>11, <1>13, <2>1 DEF Todo
    <3> QED  BY <1>1, <1>2, <1>5, <2>1, <3>1, <3>2, <3>3, WindowKept
  <2>4. Progress'
    BY <1>11, <1>13, <2>1
  <2> QED  BY <1>1, <1>5, <1>7, <2>2, <2>3, <2>4 DEF IInv, RestoreInv
<1>14. CASE DOMAIN orig # {}
  <2> DEFINE win == windows[v]
             list == Append(win.tabs, Single(text))
             new == [tabs |-> list, active |-> win.active]
  <2>1. banner' = Blank /\ windows' = [windows EXCEPT ![v].tabs = list]
    BY <1>1, <1>3, <1>14
  <2>2. win \in WindowSet /\ Single(text) \in TabSet
    BY <1>2, <1>3, OneTabTyped, WindowTyped
  <2>3. /\ Len(list) = Len(win.tabs) + 1 /\ list[Len(win.tabs) + 1] = Single(text) /\ new \in WindowSet
        /\ \A u \in 1 .. Len(win.tabs) : list[u] = win.tabs[u]
        /\ [win EXCEPT !.tabs = list] = new /\ Len(win.tabs) \in Nat
    <3>1. win.active \in 0 .. Len(win.tabs)
      BY <2>2, TabAdded
    <3> HIDE DEF win, text
    <3>2. new \in WindowSet
      BY <2>2, <3>1, TabAdded
    <3>3. [win EXCEPT !.tabs = list] = new
      BY <2>2, TabAdded
    <3>4. Len(list) = Len(win.tabs) + 1 /\ Len(win.tabs) \in Nat /\ list[Len(win.tabs) + 1] = Single(text)
      BY <2>2, TabAdded
    <3>5. \A u \in 1 .. Len(win.tabs) : list[u] = win.tabs[u]
      BY <2>2, TabAdded
    <3> QED  BY <3>2, <3>3, <3>4, <3>5
  <2>4. windows' = [windows EXCEPT ![v] = new]
    <3>1. windows' = [windows EXCEPT ![v] = [win EXCEPT !.tabs = list]]
      BY <1>2, <1>3, <2>1
    <3> QED  BY <2>3, <3>1
  <2>5. new.tabs = list /\ new.active = win.active
    OBVIOUS
  <2> HIDE DEF new
  <2>6. /\ windows' \in Seq(WindowSet) /\ Len(windows') = Len(windows) /\ windows'[v] = new
        /\ \A w \in 1 .. Len(windows) : w # v => windows'[w] = windows[w]
    <3>1. windows \in Seq(WindowSet) /\ v \in 1 .. Len(windows) /\ new \in WindowSet
      BY <1>2, <1>3, <2>3
    <3> HIDE DEF v, win
    <3> QED  BY <2>4, <3>1, WindowSetTyped
  <2>7. TypeInv'
    BY <1>1, <1>5, <2>1, <2>6, BlankIs DEF IInv, TypeInv
  <2>8. ASSUME NEW w \in 1 .. v, w # v PROVE WindowDone(w)'
    <3>1. Opened(w)' = Opened(w)
      BY <1>9, <2>8
    <3>2. windows'[w] = windows[w]
      BY <1>2, <2>6, <2>8
    <3>3. ActiveOK(w)'
      BY <1>1, <1>2, <1>5, <3>2 DEF WindowDone, ActiveOK
    <3>4. \A t : Todo(w, t) = <<>> /\ Todo(w, t)' = <<>>
      BY <1>5, <2>8 DEF Todo
    <3> QED  BY <1>1, <1>2, <1>5, <3>1, <3>2, <3>3, <3>4, WindowKept
  <2>9. ASSUME NEW w, w = v PROVE WindowDone(w)'
    <3> DEFINE old == Opened(w)
    <3>1. WindowDone(w) /\ w \in 1 .. Len(windows)
      BY <1>2, <1>3, <2>9
    <3>2. /\ Opened(w)' = old + 1 /\ old \in Nat /\ Filled(saved[w])[old + 1] = orig
      <4>1. w \in 1 .. v
        BY <1>2, <3>1
      <4>2. Opened(w)' = Count(saved[w], n) /\ old = Count(saved[w], n - 1)
        BY <1>9, <1>10, <2>9, <4>1
      <4> QED  BY <1>6, <1>14, <2>9, <4>2
    <3>3. Len(win.tabs) = old
      BY <2>9, <3>1 DEF WindowDone
    <3>4. Len(windows'[w].tabs) = Opened(w)'
      BY <2>3, <2>5, <2>6, <2>9, <3>2, <3>3
    <3>5. ActiveOK(w)'
      <4>1. windows[w].active = 0
        BY <2>9, <3>1 DEF WindowDone, ActiveOK
      <4> QED  BY <1>5, <2>5, <2>6, <2>9, <4>1 DEF ActiveOK
    <3>6. \A t : Todo(w, t) = <<>> /\ Todo(w, t)' = IF t = old + 1 THEN todo ELSE <<>>
      BY <1>1, <1>5, <2>9, <3>2 DEF Todo
    <3> HIDE DEF old
    <3>7. ASSUME NEW t \in 1 .. old
          PROVE  TabOK(windows'[w].tabs[t], Filled(saved'[w])[t], Todo(w, t)', at'.whole, ~mixed')
      <4>1. t # old + 1
        BY <3>2
      <4>2. windows'[w].tabs[t] = windows[w].tabs[t]
        BY <2>3, <2>5, <2>6, <2>9, <3>3
      <4>3. TabOK(windows[w].tabs[t], Filled(saved[w])[t], Todo(w, t), at.whole, ~mixed)
        BY <3>1 DEF WindowDone, old
      <4>4. Todo(w, t) = <<>> /\ Todo(w, t)' = <<>>
        BY <3>6, <4>1
      <4> QED  BY <1>1, <1>5, <4>2, <4>3, <4>4
    <3>8. ASSUME NEW t, t = old + 1
          PROVE  TabOK(windows'[w].tabs[t], Filled(saved'[w])[t], Todo(w, t)', at'.whole, ~mixed')
      <4>1. windows'[w].tabs[t] = Single(text)
        BY <2>3, <2>5, <2>6, <2>9, <3>3, <3>8
      <4>2. TabOK(Single(text), orig, todo, at.whole, ~mixed)
        <5> HIDE DEF text, orig, tab
        <5> QED  BY <1>3, <1>14, BegunOK DEF todo
      <4>3. Todo(w, t)' = todo /\ Filled(saved'[w])[t] = orig
        BY <1>1, <3>2, <3>6, <3>8
      <4> QED  BY <1>1, <1>5, <4>1, <4>2, <4>3
    <3>9. \A t \in 1 .. Opened(w)' : t \in 1 .. old \/ t = old + 1
      BY <3>2
    <3> QED  BY <3>4, <3>5, <3>7, <3>8, <3>9 DEF WindowDone
  <2>10. Progress'
    BY <1>12, <1>14, <2>6
  <2>11. ASSUME NEW w \in 1 .. at'.window PROVE WindowDone(w)'
    <3>1. w \in 1 .. v
      BY <1>5
    <3> QED  BY <2>8, <2>9, <3>1
  <2>12. RestoreInv'
    BY <2>10, <2>11 DEF RestoreInv
  <2> QED  BY <1>7, <2>7, <2>12 DEF IInv
<1> QED  BY <1>13, <1>14

LEMMA RestoreTabFailsIInv == ASSUME IInv, RestoreTabFails PROVE IInv'
<1> DEFINE text == BannerAt(at.window, at.tab + 1, <<>>)
<1>1. /\ phase = "restoring" /\ ~TabsDone /\ phase' = "running" /\ banner' = text /\ at' = Nowhere /\ failed' = TRUE
      /\ UNCHANGED <<files, json, saved, mixed>> /\ spent' = [spent EXCEPT !.failures = @ + 1]
      /\ windows' = windows \/ windows' = Append(windows, OneTab(text))
  BY DEF RestoreTabFails, Restoring, Fail, BannerAt, disk
<1>2. text \in Shown /\ windows \in Seq(WindowSet)
  BY <1>1, NextTabIs, RestoringIs
<1> HIDE DEF text
<1>3. windows' \in Seq(WindowSet)
  <2>1. OneTab(text) \in WindowSet
    BY <1>2, OneTabTyped
  <2> QED  BY <1>1, <1>2, <2>1
<1>4. spent' \in [moves : Nat, starts : Nat, failures : Nat, texts : Nat]
  <2>1. spent \in [moves : Nat, starts : Nat, failures : Nat, texts : Nat]
    BY DEF IInv, TypeInv
  <2> QED  BY <1>1, <2>1
<1>5. TypeInv'
  BY <1>1, <1>2, <1>3, <1>4, NowhereTyped DEF IInv, TypeInv
<1>6. DiskInv'
  BY <1>1, SameDisk DEF IInv, disk
<1> QED  BY <1>1, <1>5, <1>6 DEF IInv, RestoreInv

(* A split has its pane, and what is left to split changes with it. *)
LEMMA RestoreSplitIInv == ASSUME IInv, RestoreSplit PROVE IInv'
<1> DEFINE v == at.window
           n == at.tab
           orig == saved[v].tabs[n]
           jt == json.windows[v].tabs[n]
           todo == at.todo
           node == Head(todo)
           right == Append(node, "right")
           text == BannerAt(v, n, right)
           last == Len(windows[v].tabs)
           tab == windows[v].tabs[last]
           split == SplitTab(tab, node, "right", text)
           next == ToSplit(jt, todo)
<1>1. /\ phase = "restoring" /\ todo # <<>>
      /\ windows' = [windows EXCEPT ![v].tabs[last] = split]
      /\ banner' = Blank /\ failed' = FALSE
      /\ at' = [at EXCEPT !.todo = next]
      /\ UNCHANGED <<phase, files, json, saved, mixed, spent>>
  BY DEF RestoreSplit, Restoring, SavedTab, BannerAfter, BannerAt, disk
<1>2. /\ json # NoSession /\ windows \in Seq(WindowSet) /\ saved \in Seq(WindowSet) /\ at \in Positions
      /\ v \in 0 .. Len(saved) /\ Len(windows) = v /\ \A w \in 1 .. v : WindowDone(w)
      /\ v \in 1 .. Len(saved) /\ v \in 1 .. Len(windows) /\ n \in WithPanes(saved[v])
  BY <1>1, RestoringIs
<1>3. saved[v].tabs \in Seq(TabSet) /\ n \in 1 .. Len(saved[v].tabs) /\ n - 1 \in 0 .. Len(saved[v].tabs)
  <2>1. saved[v].tabs \in Seq(TabSet)
    BY <1>2, WindowTyped
  <2>2. n \in 1 .. Len(saved[v].tabs)
    BY <1>2, <2>1, WithPanesIs
  <2> QED  BY <2>1, <2>2
<1>4. Opened(v) = Count(saved[v], n) /\ Opened(v) \in Nat /\ Opened(v) >= 1 /\ Filled(saved[v])[Opened(v)] = orig
  <2>1. Opened(v) = Count(saved[v], n)
    BY <1>2 DEF Opened, Tried
  <2> HIDE DEF n
  <2>2. Count(saved[v], n) = Count(saved[v], n - 1) + 1 /\ Filled(saved[v])[Count(saved[v], n)] = saved[v].tabs[n]
    BY <1>2, <1>3, CountIs
  <2>3. Count(saved[v], n - 1) \in Nat
    BY <1>3, CountIs
  <2> QED  BY <2>1, <2>2, <2>3
<1>5. DOMAIN jt = DOMAIN orig /\ Tree(DOMAIN orig)
  BY <1>2, <1>3, JsonIs, WindowTyped
<1>6. last = Opened(v) /\ last \in 1 .. last /\ tab \in TabSet /\ Tree(DOMAIN tab) /\ tab \in [DOMAIN tab -> Shown]
  <2>1. v \in 1 .. v
    BY <1>2
  <2>2. last = Opened(v)
    BY <1>2, <2>1 DEF WindowDone
  <2>3. last \in 1 .. last
    BY <1>4, <2>2
  <2>4. tab \in TabSet
    BY <1>2, <2>3, WindowTyped
  <2> QED  BY <2>2, <2>3, <2>4, TabTyped
<1>7. TabOK(tab, orig, todo, at.whole, ~mixed)
  <2>1. v \in 1 .. v /\ last \in 1 .. Opened(v)
    BY <1>2, <1>6
  <2>2. TabOK(tab, Filled(saved[v])[last], Todo(v, last), at.whole, ~mixed)
    BY <1>2, <2>1 DEF WindowDone
  <2>3. Todo(v, last) = todo
    BY <1>6 DEF Todo
  <2> QED  BY <1>4, <1>6, <2>2, <2>3
<1>8. todo \in Seq(Paths) /\ node \in Paths /\ right \in Paths /\ Below(DOMAIN orig, right)
  <2>1. todo \in Seq(Paths)
    BY <1>2 DEF Positions
  <2> HIDE DEF todo
  <2>2. Range(todo) \subseteq DOMAIN tab \ DOMAIN orig /\ IsInjective(todo)
    BY <1>7 DEF TabOK, Pending
  <2>3. node \in Range(todo) /\ node \in Paths
    BY <1>1, <2>1, <2>2, TailIs
  <2>4. node \in DOMAIN tab /\ node \notin DOMAIN orig /\ Below(DOMAIN orig, node)
    BY <1>7, <2>2, <2>3 DEF TabOK, PartOf
  <2>5. "right" \in Sides
    BY DEF Sides
  <2>6. right \in Paths
    BY <2>3, <2>5, AppendPath
  <2>7. Below(DOMAIN orig, right)
    BY <1>5, <2>3, <2>4, <2>5 DEF Tree, Full
  <2> QED  BY <2>1, <2>3, <2>6, <2>7
<1>9. text \in Shown /\ (~mixed => text \in {Blank, orig[FirstLeaf(orig, right)]})
  <2>1. text \in Shown
    BY BannerForTyped DEF BannerAt, IInv
  <2>2. ASSUME ~mixed PROVE text \in {Blank, orig[FirstLeaf(orig, right)]}
    <3> HIDE DEF right, n, v
    <3> QED  BY <1>2, <1>3, <1>8, <2>2, BannerAtOwn
  <2> QED  BY <2>1, <2>2
<1>10. node \in DOMAIN tab /\ TabOK(split, orig, next, at.whole, ~mixed) /\ next \in Seq(Paths)
  <2> DEFINE D == DOMAIN tab
             all == at.whole
             own == ~mixed
  <2>1. /\ Tree(D) /\ tab \in [D -> Shown] /\ Tree(DOMAIN orig) /\ DOMAIN jt = DOMAIN orig
        /\ todo \in Seq(Paths) /\ todo # <<>> /\ TabOK(tab, orig, todo, all, own) /\ text \in Shown
        /\ own => text \in {Blank, orig[FirstLeaf(orig, Append(Head(todo), "right"))]}
    BY <1>1, <1>5, <1>6, <1>7, <1>8, <1>9
  <2> HIDE DEF D, all, own, tab, orig, jt, todo, text
  <2>2. /\ Head(todo) \in D
        /\ TabOK(SplitTab(tab, Head(todo), "right", text), orig, ToSplit(jt, todo), all, own)
        /\ ToSplit(jt, todo) \in Seq(Paths)
    BY <2>1, SplitOK
  <2> QED  BY <2>2 DEF D, all, own
<1>11. split \in TabSet
  <2> DEFINE D == DOMAIN tab
  <2>1. Tree(D) /\ tab \in [D -> Shown] /\ node \in D /\ text \in Shown
    BY <1>6, <1>9, <1>10
  <2>2. "right" \in Sides
    BY DEF Sides
  <2> HIDE DEF D, tab, node, text
  <2>3. SplitTab(tab, node, "right", text) \in [SplitPlaces(D, node) -> Shown]
    BY <2>1, SplitRightIs
  <2>4. Tree(SplitPlaces(D, node))
    BY <2>1, SplitPlace
  <2> QED  BY <2>3, <2>4, TabMade
<1>12. /\ at' \in Positions /\ at'.window = v /\ at'.tab = n /\ at'.todo = next /\ at'.whole = at.whole
  <2>1. at \in [window : Nat, tab : Nat, todo : Seq(Paths), whole : BOOLEAN]
    BY <1>2 DEF Positions
  <2> HIDE DEF next
  <2> QED  BY <1>1, <1>10, <2>1 DEF Positions
<1> HIDE DEF split, next
<1>13. /\ windows' \in Seq(WindowSet) /\ Len(windows') = Len(windows)
       /\ \A w \in 1 .. Len(windows) : w # v => windows'[w] = windows[w]
       /\ windows'[v].active = windows[v].active /\ Len(windows'[v].tabs) = last
       /\ windows'[v].tabs[last] = split
       /\ \A u \in 1 .. last : u # last => windows'[v].tabs[u] = windows[v].tabs[u]
  <2> HIDE DEF v
  <2>1. windows' \in Seq(WindowSet)
    <3>1. ASSUME NEW w \in 1 .. Len(windows), NEW t \in 1 .. Len(windows[w].tabs), NEW new \in TabSet,
                 windows' = [windows EXCEPT ![w].tabs[t] = new]
          PROVE  windows' \in Seq(WindowSet)
      BY <1>2, <3>1, TabSetTyped
    <3> QED  BY <1>1, <1>2, <1>6, <1>11, <3>1
  <2>5. Len(windows') = Len(windows)
    BY <1>1, <1>2, <1>6, <1>11, TabSetTyped
  <2>2. \A w \in 1 .. Len(windows) : w # v => windows'[w] = windows[w]
    BY <1>1, <1>2, <1>6, <1>11, TabSetTyped
  <2>3. windows'[v].active = windows[v].active /\ Len(windows'[v].tabs) = last /\ windows'[v].tabs[last] = split
    BY <1>1, <1>2, <1>6, <1>11, TabSetTyped
  <2>4. \A u \in 1 .. last : u # last => windows'[v].tabs[u] = windows[v].tabs[u]
    BY <1>1, <1>2, <1>6, <1>11, TabSetTyped
  <2> QED  BY <2>1, <2>2, <2>3, <2>4, <2>5
<1>14. TypeInv'
  BY <1>1, <1>12, <1>13, BlankIs DEF IInv, TypeInv
<1>15. DiskInv'
  BY <1>1, SameDisk DEF IInv, disk
<1>16. Progress'
  <2>1. v > 0 /\ n \in 0 .. Len(saved[v].tabs)
    BY <1>2, <1>3
  <2> QED  BY <1>1, <1>2, <1>12, <1>13, <2>1 DEF Progress
<1>17. \A w : Opened(w)' = Opened(w)
  BY <1>1, <1>12 DEF Opened, Tried
<1>18. ASSUME NEW w \in 1 .. v, w # v PROVE WindowDone(w)'
  <2>1. windows'[w] = windows[w]
    BY <1>2, <1>13, <1>18
  <2>2. ActiveOK(w)'
    BY <1>1, <1>2, <1>12, <2>1 DEF WindowDone, ActiveOK
  <2>3. \A t : Todo(w, t) = <<>> /\ Todo(w, t)' = <<>>
    BY <1>12, <1>18 DEF Todo
  <2> QED  BY <1>1, <1>2, <1>12, <1>17, <2>1, <2>2, <2>3, WindowKept
<1>19. ASSUME NEW w, w = v PROVE WindowDone(w)'
  <2>1. WindowDone(w) /\ w \in 1 .. Len(windows)
    BY <1>2, <1>19
  <2>2. Len(windows'[w].tabs) = Opened(w)'
    BY <1>6, <1>13, <1>17, <1>19
  <2>3. ActiveOK(w)'
    <3>1. windows[w].active = 0
      BY <1>19, <2>1 DEF WindowDone, ActiveOK
    <3> QED  BY <1>12, <1>13, <1>19, <3>1 DEF ActiveOK
  <2>4. ASSUME NEW t \in 1 .. Opened(w), t # Opened(w)
        PROVE  TabOK(windows'[w].tabs[t], Filled(saved'[w])[t], Todo(w, t)', at'.whole, ~mixed')
    <3>1. windows'[w].tabs[t] = windows[w].tabs[t]
      BY <1>6, <1>13, <1>19, <2>4
    <3>2. TabOK(windows[w].tabs[t], Filled(saved[w])[t], Todo(w, t), at.whole, ~mixed)
      BY <2>1 DEF WindowDone
    <3>3. Todo(w, t) = <<>> /\ Todo(w, t)' = <<>>
      BY <1>17, <2>4 DEF Todo
    <3> QED  BY <1>1, <1>12, <3>1, <3>2, <3>3
  <2>5. ASSUME NEW t, t = Opened(w)
        PROVE  TabOK(windows'[w].tabs[t], Filled(saved'[w])[t], Todo(w, t)', at'.whole, ~mixed')
    <3>1. windows'[w].tabs[t] = split
      BY <1>6, <1>13, <1>19, <2>5
    <3>2. Filled(saved'[w])[t] = orig
      BY <1>1, <1>4, <1>19, <2>5
    <3>3. Todo(w, t)' = next
      BY <1>12, <1>17, <1>19, <2>5 DEF Todo
    <3> QED  BY <1>1, <1>10, <1>12, <3>1, <3>2, <3>3
  <2>6. ASSUME NEW t \in 1 .. Opened(w)'
        PROVE  TabOK(windows'[w].tabs[t], Filled(saved'[w])[t], Todo(w, t)', at'.whole, ~mixed')
    BY <1>17, <2>4, <2>5
  <2> QED  BY <2>2, <2>3, <2>6 DEF WindowDone
<1>20. ASSUME NEW w \in 1 .. at'.window PROVE WindowDone(w)'
  <2>1. w \in 1 .. v
    BY <1>12
  <2> QED  BY <1>18, <1>19, <2>1
<1>21. RestoreInv'
  BY <1>16, <1>20 DEF RestoreInv
<1> QED  BY <1>14, <1>15, <1>21 DEF IInv

LEMMA RestoreSplitFailsIInv == ASSUME IInv, RestoreSplitFails PROVE IInv'
<1> DEFINE v == at.window
           text == BannerAt(v, at.tab, Append(Head(at.todo), "right"))
<1>1. /\ phase = "restoring" /\ failed' = TRUE
      /\ banner' = text
      /\ at' = [at EXCEPT !.todo = <<>>, !.whole = FALSE]
      /\ UNCHANGED <<phase, windows, files, json, saved, mixed>>
      /\ spent' = [spent EXCEPT !.failures = @ + 1]
  BY DEF RestoreSplitFails, Restoring, Fail, SavedTab, BannerAt, disk
<1>2. /\ json # NoSession /\ windows \in Seq(WindowSet) /\ saved \in Seq(WindowSet) /\ at \in Positions
      /\ v \in 0 .. Len(saved) /\ Len(windows) = v /\ \A w \in 1 .. v : WindowDone(w)
  BY <1>1, RestoringIs
<1>3. text \in Shown
  BY BannerForTyped DEF BannerAt, IInv
<1> HIDE DEF text
<1>4. /\ at' \in Positions /\ at'.window = v /\ at'.tab = at.tab /\ at'.todo = <<>> /\ at'.whole = FALSE
  <2>1. at \in [window : Nat, tab : Nat, todo : Seq(Paths), whole : BOOLEAN] /\ <<>> \in Seq(Paths) /\ FALSE \in BOOLEAN
    BY <1>2 DEF Positions
  <2> QED  BY <1>1, <2>1 DEF Positions
<1>5. spent' \in [moves : Nat, starts : Nat, failures : Nat, texts : Nat]
  <2>1. spent \in [moves : Nat, starts : Nat, failures : Nat, texts : Nat]
    BY DEF IInv, TypeInv
  <2> QED  BY <1>1, <2>1
<1>6. TypeInv'
  BY <1>1, <1>2, <1>3, <1>4, <1>5 DEF IInv, TypeInv
<1>7. DiskInv'
  BY <1>1, SameDisk DEF IInv, disk
<1>8. Progress'
  BY <1>1, <1>4 DEF IInv, RestoreInv, Progress
<1>9. ASSUME NEW w \in 1 .. at'.window PROVE WindowDone(w)'
  <2>1. WindowDone(w)
    BY <1>2, <1>4
  <2>2. Opened(w)' = Opened(w)
    BY <1>1, <1>4 DEF Opened, Tried
  <2>3. ActiveOK(w)'
    BY <1>1, <1>4, <2>1 DEF WindowDone, ActiveOK
  <2>4. ASSUME NEW t \in 1 .. Opened(w)
        PROVE  TabOK(windows'[w].tabs[t], Filled(saved'[w])[t], Todo(w, t)', at'.whole, ~mixed')
    <3> DEFINE tab == windows[w].tabs[t]
               orig == Filled(saved[w])[t]
               todo == Todo(w, t)
               own == ~mixed
               all == at.whole
    <3>1. TabOK(tab, orig, todo, all, own)
      BY <2>1 DEF WindowDone
    <3>2. Todo(w, t)' = <<>>
      BY <1>4 DEF Todo
    <3> HIDE DEF tab, orig, todo, own, all
    <3>3. TabOK(tab, orig, <<>>, FALSE, own)
      <4>1. FALSE => all
        OBVIOUS
      <4> QED  BY <3>1, <4>1, TabWeaker
    <3> QED  BY <1>1, <1>4, <3>2, <3>3 DEF tab, orig, own
  <2>5. Len(windows'[w].tabs) = Opened(w)'
    BY <1>1, <2>1, <2>2 DEF WindowDone
  <2> QED  BY <2>2, <2>3, <2>4, <2>5 DEF WindowDone
<1>10. RestoreInv'
  BY <1>8, <1>9 DEF RestoreInv
<1> QED  BY <1>6, <1>7, <1>10 DEF IInv

LEMMA FinishRestoreIInv == ASSUME IInv, FinishRestore PROVE IInv'
<1>1. /\ phase = "restoring" /\ phase' = "running" /\ windows' = Activated(windows)
      /\ json' = NoSession /\ files' = NoFiles /\ UNCHANGED <<banner, at, saved, failed, spent>>
  BY DEF FinishRestore, Restoring
<1>2. windows' \in Seq(WindowSet)
  BY <1>1, ActivatedIs
<1>3. DOMAIN files' = {}
  BY <1>1 DEF NoFiles
<1>4. TypeInv'
  BY <1>1, <1>2, <1>3 DEF IInv, TypeInv
<1>5. DiskInv'
  BY <1>1 DEF DiskInv
<1> QED  BY <1>1, <1>4, <1>5 DEF IInv, RestoreInv
-----------------------------------------------------------------------------
LEMMA NextIInv == ASSUME IInv, [Next]_vars PROVE IInv'
<1>1. CASE UNCHANGED vars
  BY <1>1, StutterIInv
<1>2. CASE StartFresh \/ StartRestore
  BY <1>2, StartFreshIInv, StartRestoreIInv
<1>3. CASE RestoreWindow \/ RestoreTab \/ RestoreTabFails
  BY <1>3, RestoreWindowIInv, RestoreTabIInv, RestoreTabFailsIInv
<1>4. CASE RestoreSplit \/ RestoreSplitFails \/ FinishRestore
  BY <1>4, RestoreSplitIInv, RestoreSplitFailsIInv, FinishRestoreIInv
<1>5. CASE NewWindow \/ Prune \/ Quit \/ SavePane \/ SaveJson \/ Crash
  BY <1>5, NewWindowIInv, PruneIInv, QuitIInv, SavePaneIInv, SaveJsonIInv, CrashIInv
<1>6. ASSUME NEW w \in DOMAIN windows, NewTab(w) PROVE IInv'
  BY <1>6, NewTabIInv
<1>7. ASSUME NEW w \in DOMAIN windows, NEW t \in DOMAIN windows[w].tabs, Activate(w, t) PROVE IInv'
  BY <1>7, ActivateIInv
<1>8. ASSUME NEW w \in DOMAIN windows, NEW t \in DOMAIN windows[w].tabs,
             NEW place \in DOMAIN windows[w].tabs[t], ClosePane(w, t, place) \/ Output(w, t, place)
      PROVE  IInv'
  BY <1>8, ClosePaneIInv, OutputIInv
<1>9. ASSUME NEW w \in DOMAIN windows, NEW t \in DOMAIN windows[w].tabs,
             NEW place \in DOMAIN windows[w].tabs[t], NEW side \in Sides, SplitPane(w, t, place, side)
      PROVE  IInv'
  BY <1>9, SplitPaneIInv
<1> QED  BY <1>1, <1>2, <1>3, <1>4, <1>5, <1>6, <1>7, <1>8, <1>9 DEF Next, Sides

(* What session.rs keeps true across quits, crashes and restores: every    *)
(* tab on its way is part of the saved one, with exactly the splits that   *)
(* are missing still to come, and every file belongs to the pane with its  *)
(* number.                                                                 *)
THEOREM SessionInvariant == Spec => []IInv
<1>1. Init => IInv
  BY InitIInv
<1>2. IInv /\ [Next]_vars => IInv'
  BY NextIInv
<1> QED  BY <1>1, <1>2, PTL DEF Spec

(* No place of a tab lies inside another, and a window with tabs has an    *)
(* active one, whatever is split, closed, pruned or restored.              *)
THEOREM SessionTyped == Spec => []TypeOK
<1>1. IInv => TypeOK
  <2> SUFFICES ASSUME IInv PROVE TypeOK
    OBVIOUS
  <2>1. windows \in Seq(WindowSet)
    BY DEF IInv, TypeInv
  <2>2. ASSUME NEW w \in DOMAIN windows
        PROVE  windows[w].active < Len(windows[w].tabs) \/ windows[w].tabs = <<>>
    <3>1. windows[w] \in WindowSet
      BY <2>1, <2>2
    <3> QED  BY <3>1 DEF WindowSet
  <2>3. ASSUME NEW w \in DOMAIN windows, NEW t \in DOMAIN windows[w].tabs,
               NEW p \in DOMAIN windows[w].tabs[t], NEW q \in DOMAIN windows[w].tabs[t], IsPrefix(p, q)
        PROVE  p = q
    <3>1. Tree(DOMAIN windows[w].tabs[t])
      BY PaneIs
    <3>2. p \in Paths /\ q \in Paths /\ Ext(p, q)
      BY <2>3, <3>1, PrefixExt DEF Tree
    <3> QED  BY <3>1, <3>2 DEF Tree, Apart
  <2>4. phase \in {"off", "restoring", "running", "saving"} /\ banner \in Texts \cup {Blank}
    BY DEF IInv, TypeInv, Shown
  <2>5. \A n \in DOMAIN files : files[n] \in Texts \cup {Torn}
    BY DEF IInv, TypeInv
  <2> QED  BY <2>2, <2>3, <2>4, <2>5 DEF TypeOK
<1> QED  BY <1>1, SessionInvariant, PTL

(* A pane of a restore shows what the pane at its place showed at the quit *)
(* or nothing, and no banner is left behind unless a spawn or split failed.*)
THEOREM OwnScrollbackComesBack == Spec => []OwnScrollback
<1>1. IInv => OwnScrollback
  <2> SUFFICES ASSUME IInv PROVE OwnScrollback
    OBVIOUS
  <2>1. banner # Blank => failed
    BY DEF IInv, TypeInv
  <2>2. ASSUME phase = "restoring", ~mixed, NEW w \in DOMAIN windows, NEW t \in DOMAIN windows[w].tabs
        PROVE  \A q \in DOMAIN windows[w].tabs[t] :
                    windows[w].tabs[t][q] \in {Blank, Filled(saved[w])[t][FirstLeaf(Filled(saved[w])[t], q)]}
    <3>1. windows \in Seq(WindowSet) /\ Len(windows) = at.window /\ \A v \in 1 .. at.window : WindowDone(v)
      BY <2>2, RestoringIs
    <3>2. w \in 1 .. Len(windows) /\ WindowDone(w)
      BY <2>2, <3>1
    <3>3. t \in 1 .. Len(windows[w].tabs)
      BY <2>2, <3>1, <3>2, WindowTyped
    <3>4. TabOK(windows[w].tabs[t], Filled(saved[w])[t], Todo(w, t), at.whole, ~mixed)
      BY <3>2, <3>3 DEF WindowDone
    <3> QED  BY <2>2, <3>4 DEF TabOK, OwnTexts
  <2> QED  BY <2>1, <2>2 DEF OwnScrollback
<1> QED  BY <1>1, SessionInvariant, PTL

(* Only the end of a restore takes a session from the disk. *)
LEMMA OnlyFinishEnds ==
    ASSUME IInv, [Next]_vars, json # NoSession, json' = NoSession
    PROVE  FinishRestore
<1>1. CASE UNCHANGED vars
  BY <1>1 DEF vars, disk
<1>2. CASE StartFresh \/ StartRestore
  BY <1>2 DEF StartFresh, StartRestore, Start, disk
<1>3. CASE RestoreWindow \/ RestoreTab \/ RestoreTabFails \/ RestoreSplit \/ RestoreSplitFails
  BY <1>3 DEF RestoreWindow, RestoreTab, RestoreTabFails, RestoreSplit, RestoreSplitFails, disk
<1>4. CASE NewWindow \/ Prune \/ Quit \/ SavePane \/ Crash
  BY <1>4 DEF NewWindow, Prune, Quit, SavePane, Crash, Move, disk
<1>5. CASE SaveJson
  BY <1>5, NoNoSession DEF SaveJson
<1>6. ASSUME NEW w \in DOMAIN windows,
             \/ NewTab(w)
             \/ \E t \in DOMAIN windows[w].tabs :
                    \/ Activate(w, t)
                    \/ \E place \in DOMAIN windows[w].tabs[t] :
                        \/ ClosePane(w, t, place)
                        \/ Output(w, t, place)
                        \/ \E side \in {"left", "right"} : SplitPane(w, t, place, side)
      PROVE  FALSE
  BY <1>6 DEF NewTab, Activate, ClosePane, Output, SplitPane, Move, disk
<1> QED  BY <1>1, <1>2, <1>3, <1>4, <1>5, <1>6 DEF Next

(* What the end of a restore has of every saved window. *)
LEMMA FinishedIs ==
    ASSUME IInv, FinishRestore
    PROVE  /\ Len(windows') = Len(saved) /\ saved \in Seq(WindowSet)
           /\ \A w \in 1 .. Len(saved) :
                /\ windows'[w].tabs = windows[w].tabs /\ windows[w].tabs \in Seq(TabSet)
                /\ windows'[w].active = IF windows[w].tabs = <<>> THEN 0
                                        ELSE Lower(saved[w].active, Len(windows[w].tabs) - 1)
                /\ Len(windows[w].tabs) = Len(Filled(saved[w]))
                /\ \A t \in 1 .. Len(windows[w].tabs) :
                    TabOK(windows[w].tabs[t], Filled(saved[w])[t], <<>>, at.whole, ~mixed)
<1>1. /\ phase = "restoring" /\ at.todo = <<>> /\ TabsDone /\ at.window = Len(json.windows)
      /\ windows' = Activated(windows)
  BY DEF FinishRestore, Restoring
<1>2. /\ windows \in Seq(WindowSet) /\ saved \in Seq(WindowSet) /\ Len(saved) \in Nat
      /\ at.window = Len(saved) /\ Len(windows) = at.window
      /\ at.window > 0 => at.tab = Len(saved[at.window].tabs)
      /\ \A w \in 1 .. at.window : WindowDone(w)
  BY <1>1, RestoringIs DEF TabsDone
<1>3. /\ Len(windows') = Len(windows)
      /\ \A w \in 1 .. Len(windows) :
            /\ windows'[w].tabs = windows[w].tabs
            /\ windows'[w].active = IF windows[w].tabs = <<>> THEN 0
                                    ELSE Lower(saved[w].active, Len(windows[w].tabs) - 1)
  BY <1>1, ActivatedIs
<1>4. ASSUME NEW w \in 1 .. Len(saved)
      PROVE  /\ windows[w].tabs \in Seq(TabSet)
             /\ Len(windows[w].tabs) = Len(Filled(saved[w]))
             /\ \A t \in 1 .. Len(windows[w].tabs) :
                    TabOK(windows[w].tabs[t], Filled(saved[w])[t], <<>>, at.whole, ~mixed)
  <2>1. WindowDone(w) /\ w \in 1 .. Len(windows)
    BY <1>2
  <2>2. windows[w].tabs \in Seq(TabSet) /\ saved[w].tabs \in Seq(TabSet)
    BY <1>2, <2>1, WindowTyped
  <2>3. Tried(w) = Len(saved[w].tabs)
    BY <1>2 DEF Tried
  <2>4. Opened(w) = Len(Filled(saved[w]))
    BY <2>2, <2>3, CountIs DEF Opened
  <2>5. \A t : Todo(w, t) = <<>>
    BY <1>1 DEF Todo
  <2> QED  BY <2>1, <2>2, <2>4, <2>5 DEF WindowDone
<1> QED  BY <1>2, <1>3, <1>4

(* With nothing left to split, a tab has the places of the saved one. *)
LEMMA SamePlaces ==
    ASSUME NEW tab, NEW orig, Tree(DOMAIN orig), NEW own, TabOK(tab, orig, <<>>, TRUE, own)
    PROVE  DOMAIN tab = DOMAIN orig
<1>1. Range(<<>>) = {}
  BY DEF Range
<1>2. DOMAIN tab \subseteq DOMAIN orig
  BY <1>1 DEF TabOK, Pending
<1>3. ASSUME NEW p \in DOMAIN orig PROVE p \in DOMAIN tab
  <2>1. PICK q \in DOMAIN tab : Ext(q, p)
    BY DEF TabOK, PartOf
  <2>2. q = p
    BY <1>2, <2>1 DEF Tree, Apart
  <2> QED  BY <2>1, <2>2
<1> QED  BY <1>2, <1>3

(* The session leaves the disk only when every window, every tab with      *)
(* panes and, unless a split failed, every split of it is open again.      *)
THEOREM SessionComesBackWhole == Spec => RestoredWhole
<1>1. ASSUME IInv, [Next]_vars, json # NoSession, json' = NoSession
      PROVE  /\ Len(windows') = Len(saved)
             /\ \A w \in DOMAIN saved :
                    /\ Len(windows'[w].tabs) = Len(Filled(saved[w]))
                    /\ at.whole => Shape(windows'[w].tabs) = Shape(Filled(saved[w]))
  <2>1. FinishRestore
    BY <1>1, OnlyFinishEnds
  <2>2. /\ Len(windows') = Len(saved) /\ saved \in Seq(WindowSet)
        /\ \A w \in 1 .. Len(saved) :
                /\ windows'[w].tabs = windows[w].tabs /\ windows[w].tabs \in Seq(TabSet)
                /\ Len(windows[w].tabs) = Len(Filled(saved[w]))
                /\ \A t \in 1 .. Len(windows[w].tabs) :
                    TabOK(windows[w].tabs[t], Filled(saved[w])[t], <<>>, at.whole, ~mixed)
    BY <1>1, <2>1, FinishedIs
  <2>3. ASSUME NEW w \in 1 .. Len(saved), at.whole PROVE Shape(windows'[w].tabs) = Shape(Filled(saved[w]))
    <3> DEFINE tabs == windows[w].tabs
               filled == Filled(saved[w])
    <3>1. windows'[w].tabs = tabs /\ tabs \in Seq(TabSet) /\ Len(tabs) = Len(filled)
      BY <2>2
    <3>2. filled \in Seq(TabSet)
      BY <2>2, WindowTyped, WithPanesIs
    <3>3. ASSUME NEW t \in 1 .. Len(tabs) PROVE DOMAIN tabs[t] = DOMAIN filled[t]
      <4>1. TabOK(tabs[t], filled[t], <<>>, at.whole, ~mixed)
        BY <2>2
      <4>2. Tree(DOMAIN filled[t])
        <5> HIDE DEF filled
        <5>1. filled[t] \in TabSet
          BY <3>1, <3>2
        <5> QED  BY <5>1, TabTyped
      <4>3. at.whole = TRUE
        BY <1>1, <2>3 DEF IInv, TypeInv, Positions
      <4> DEFINE a == tabs[t]
                 b == filled[t]
                 own == ~mixed
      <4>4. TabOK(a, b, <<>>, TRUE, own) /\ Tree(DOMAIN b)
        BY <4>1, <4>2, <4>3
      <4> HIDE DEF a, b, own
      <4>5. DOMAIN a = DOMAIN b
        BY <4>4, SamePlaces
      <4> QED  BY <4>5 DEF a, b
    <3> HIDE DEF tabs, filled
    <3>4. DOMAIN tabs = 1 .. Len(tabs) /\ DOMAIN filled = 1 .. Len(tabs)
      BY <3>1, <3>2
    <3>5. Shape(tabs) = Shape(filled)
      BY <3>3, <3>4 DEF Shape
    <3> QED  BY <3>1, <3>5 DEF filled
  <2>4. DOMAIN saved = 1 .. Len(saved)
    BY <2>2
  <2> QED  BY <2>2, <2>3, <2>4
<1>2. IInv /\ [Next]_vars => [json # NoSession /\ json' = NoSession =>
        /\ Len(windows') = Len(saved)
        /\ \A w \in DOMAIN saved :
            /\ Len(windows'[w].tabs) = Len(Filled(saved[w]))
            /\ at.whole => Shape(windows'[w].tabs) = Shape(Filled(saved[w]))]_vars
  BY <1>1
<1> QED  BY <1>2, SessionInvariant, PTL DEF Spec, RestoredWhole

(* The active tab of every window is active again, unless it or one before *)
(* it had lost its last pane.                                              *)
THEOREM SavedTabIsActiveAgain == Spec => ActiveTabComesBack
<1>1. ASSUME IInv, [Next]_vars, json # NoSession, json' = NoSession, NEW w \in DOMAIN saved,
             \A t \in DOMAIN saved[w].tabs : t <= saved[w].active + 1 => DOMAIN saved[w].tabs[t] # {}
      PROVE  windows'[w].active = saved[w].active
  <2> DEFINE win == saved[w]
             list == windows[w].tabs
  <2>1. FinishRestore
    BY <1>1, OnlyFinishEnds
  <2>2. saved \in Seq(WindowSet)
    BY <1>1, <2>1, FinishedIs
  <2>3. w \in 1 .. Len(saved)
    BY <2>2
  <2>4. /\ windows'[w].active = IF list = <<>> THEN 0 ELSE Lower(win.active, Len(list) - 1)
        /\ list \in Seq(TabSet) /\ Len(list) = Len(Filled(win))
    BY <1>1, <2>1, <2>3, FinishedIs
  <2>5. /\ win \in WindowSet /\ win.tabs \in Seq(TabSet) /\ win.active \in Nat /\ Len(win.tabs) \in Nat
        /\ DOMAIN win.tabs = 1 .. Len(win.tabs)
    BY <2>2, <2>3, WindowTyped
  <2>6. win.active < Len(win.tabs) \/ (win.tabs = <<>> /\ win.active = 0)
    BY <2>5 DEF WindowSet
  <2>7. \A t : t \in WithPanes(win) <=> t \in 1 .. Len(win.tabs) /\ DOMAIN win.tabs[t] # {}
    BY <2>5, WithPanesIs
  <2>8. CASE win.active < Len(win.tabs)
    <3> DEFINE n == win.active + 1
    <3>1. n \in 0 .. Len(win.tabs) /\ 1 .. n \subseteq 1 .. Len(win.tabs)
      BY <2>5, <2>8
    <3>2. 1 .. n \subseteq WithPanes(win)
      BY <1>1, <2>5, <2>7, <3>1
    <3>3. n <= Len(Filled(win))
      <4> HIDE DEF n, win
      <4> QED  BY <2>5, <3>1, <3>2, CountIs
    <3> HIDE DEF win, list
    <3>4. list # <<>> /\ Lower(win.active, Len(list) - 1) = win.active
      BY <2>4, <2>5, <3>3 DEF Lower
    <3> QED  BY <2>4, <3>4 DEF win
  <2>9. CASE win.tabs = <<>> /\ win.active = 0
    <3>1. Len(win.tabs) = 0
      BY <2>9
    <3>2. Len(Filled(win)) = 0
      <4> HIDE DEF win
      <4> QED  BY <2>5, <3>1, CountIs
    <3>3. list = <<>>
      <4> HIDE DEF win, list
      <4> QED  BY <2>4, <3>2
    <3> QED  BY <2>4, <2>9, <3>3
  <2> QED  BY <2>6, <2>8, <2>9
<1>2. IInv /\ [Next]_vars => [json # NoSession /\ json' = NoSession =>
        \A w \in DOMAIN saved :
            (\A t \in DOMAIN saved[w].tabs : t <= saved[w].active + 1 => DOMAIN saved[w].tabs[t] # {})
                => windows'[w].active = saved[w].active]_vars
  BY <1>1
<1> QED  BY <1>2, SessionInvariant, PTL DEF Spec, ActiveTabComesBack
=============================================================================

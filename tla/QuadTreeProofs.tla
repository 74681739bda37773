---------------------------- MODULE QuadTreeProofs ----------------------------
(***************************************************************************)
(* The QuadTree, for any number of drivers, any places, any capacity and   *)
(* any depth.                                                              *)
(*                                                                         *)
(* A way down the tree is a chain of nodes, one on every level, each in    *)
(* the box of the one above (DescentLine, BoxesNest).  From it comes where *)
(* an insertion stops (Way), and that the points of a leaf that splits get *)
(* to leaves below it.  The operations are made of each other, so the      *)
(* invariant is about trees as values: Sound says that the cached leaf of  *)
(* a driver with a place is a leaf whose box holds the place, and that the *)
(* points are where the cache says; Needed that a leaf over capacity is at *)
(* the bottom and that what is below a divided node does not fit into a    *)
(* leaf.  A removal keeps Needed because a node above the leaf that does   *)
(* not collapse holds too much, or has a divided node off the way below    *)
(* it, which holds too much and lost nothing.                              *)
(*                                                                         *)
(* The search is loops within loops, each a function of the number of its  *)
(* turns.  Both loops of the heap keep its order but at one position; the  *)
(* candidates stay the nearest of the drivers looked at, as far as there   *)
(* is room for them.  Between turns of the main loop every driver within   *)
(* the radius is a candidate, or no nearer than the last of k of them, or  *)
(* in a queued node or below one (Searching).  The nodes that were taken   *)
(* out of the queue are one more after every turn, so that as many turns   *)
(* as there are nodes are enough.                                          *)
(***************************************************************************)
EXTENDS NearestNeighbors, FiniteSetTheorems, SequenceTheorems, WellFoundedInduction, TLAPS

-----------------------------------------------------------------------------
(* Paths *)

LEMMA Depth == MaxDepth \in Nat
BY Zenon, QuadTreeAssumption

\* a is a strict prefix of n, position by position.
Over(a, n) == Len(a) < Len(n) /\ \A i \in 1..Len(a) : a[i] = n[i]

LEMMA NodeShape ==
  ASSUME NEW n \in Nodes
  PROVE  n \in Seq(Quadrants) /\ Len(n) \in Nat /\ Len(n) <= MaxDepth
<1>1. PICK k \in 0..MaxDepth : n \in [1..k -> Quadrants]
  BY DEF Nodes
<1> QED
  BY <1>1, Depth

LEMMA IsNode ==
  ASSUME NEW n \in Seq(Quadrants), Len(n) <= MaxDepth
  PROVE  n \in Nodes
<1>1. Len(n) \in 0..MaxDepth /\ n \in [1..Len(n) -> Quadrants]
  BY Depth
<1> QED
  BY <1>1 DEF Nodes

LEMMA SamePath ==
  ASSUME NEW m \in Nodes, NEW n \in Nodes, Len(m) = Len(n), \A i \in 1..Len(n) : m[i] = n[i]
  PROVE  m = n
BY NodeShape, SeqEqual

\* The nodes above and below another.
LEMMA AboveIs ==
  ASSUME NEW n \in Nodes
  PROVE  Above(n) = {a \in Nodes : Over(a, n)}
<1>1. n \in Seq(Quadrants) /\ Len(n) \in Nat /\ Len(n) <= MaxDepth
  BY NodeShape
<1>2. ASSUME NEW i \in 0..(Len(n) - 1)
      PROVE  /\ SubSeq(n, 1, i) \in Nodes /\ Len(SubSeq(n, 1, i)) = i
             /\ Over(SubSeq(n, 1, i), n)
  <2>1. /\ SubSeq(n, 1, i) \in Seq(Quadrants) /\ Len(SubSeq(n, 1, i)) = i
        /\ \A j \in 1..i : SubSeq(n, 1, i)[j] = n[j]
    BY <1>1
  <2>2. i <= MaxDepth /\ i < Len(n)
    BY <1>1, Depth
  <2>3. SubSeq(n, 1, i) \in Nodes
    BY <2>1, <2>2, IsNode
  <2> QED
    BY <2>1, <2>2, <2>3 DEF Over
<1>3. ASSUME NEW a \in Nodes, Over(a, n) PROVE a \in Above(n)
  <2>1. Len(a) \in 0..(Len(n) - 1)
    BY <1>1, <1>3, NodeShape DEF Over
  <2>2. /\ SubSeq(n, 1, Len(a)) \in Nodes /\ Len(SubSeq(n, 1, Len(a))) = Len(a)
        /\ \A j \in 1..Len(a) : SubSeq(n, 1, Len(a))[j] = n[j]
    BY <1>1, <1>2, <2>1
  <2>3. a = SubSeq(n, 1, Len(a))
    BY <1>3, <2>2, SamePath DEF Over
  <2> QED
    BY <2>1, <2>3 DEF Above
<1> QED
  BY <1>2, <1>3 DEF Above

LEMMA BelowIs ==
  ASSUME NEW a \in Nodes
  PROVE  Below(a) = {n \in Nodes : Over(a, n)}
<1> SUFFICES ASSUME NEW n \in Nodes PROVE IsStrictPrefix(a, n) <=> Over(a, n)
  BY DEF Below
<1>1. a \in Seq(Quadrants) /\ n \in Seq(Quadrants) /\ Len(a) \in Nat /\ Len(n) \in Nat
  BY NodeShape
<1>2. SubSeq(a, 1, Len(a)) = a
  BY <1>1, SubSeqFull
<1>3. CASE Len(a) <= Len(n)
  <2>1. /\ SubSeq(n, 1, Len(a)) \in Seq(Quadrants) /\ Len(SubSeq(n, 1, Len(a))) = Len(a)
        /\ \A j \in 1..Len(a) : SubSeq(n, 1, Len(a))[j] = n[j]
    BY <1>1, <1>3
  <2>2. a = SubSeq(n, 1, Len(a)) <=> \A j \in 1..Len(a) : a[j] = n[j]
    BY <1>1, <2>1, SeqEqual
  <2>3. (\A j \in 1..Len(a) : a[j] = n[j]) => (a # n <=> Len(a) # Len(n))
    BY SamePath
  <2> QED
    BY <1>1, <1>2, <1>3, <2>2, <2>3 DEF IsStrictPrefix, IsPrefix, Over
<1>4. CASE ~(Len(a) <= Len(n))
  BY <1>1, <1>4 DEF IsStrictPrefix, IsPrefix, Over
<1> QED
  BY <1>3, <1>4

LEMMA BelowAbove ==
  ASSUME NEW a \in Nodes, NEW n \in Nodes
  PROVE  /\ n \in Below(a) <=> a \in Above(n)
         /\ a \in Above(n) => Len(a) < Len(n) /\ a # n
         /\ Above(n) \subseteq Nodes /\ Below(a) \subseteq Nodes
         /\ Len(n) \in 0..MaxDepth
BY AboveIs, BelowIs, NodeShape DEF Over

LEMMA AboveAbove ==
  ASSUME NEW a, NEW b, NEW c \in Nodes, b \in Above(c), a \in Above(b)
  PROVE  a \in Above(c)
<1>1. b \in Nodes /\ Over(b, c)
  BY AboveIs
<1>2. a \in Nodes /\ Over(a, b)
  BY <1>1, AboveIs
<1>3. Over(a, c)
  BY <1>1, <1>2, NodeShape DEF Over
<1> QED
  BY <1>2, <1>3, AboveIs

\* Two nodes above a third lie on one path.
LEMMA OnePath ==
  ASSUME NEW c \in Nodes, NEW a \in Above(c) \cup {c}, NEW b \in Above(c) \cup {c}
  PROVE  a = b \/ a \in Above(b) \/ b \in Above(a)
<1>1. /\ a \in Nodes /\ b \in Nodes
      /\ Len(a) \in Nat /\ Len(b) \in Nat /\ Len(c) \in Nat
      /\ Len(a) <= Len(c) /\ \A i \in 1..Len(a) : a[i] = c[i]
      /\ Len(b) <= Len(c) /\ \A i \in 1..Len(b) : b[i] = c[i]
  BY AboveIs, NodeShape DEF Over
<1>2. CASE Len(a) < Len(b)
  <2>1. Over(a, b)
    BY <1>1, <1>2 DEF Over
  <2> QED
    BY <1>1, <2>1, AboveIs
<1>3. CASE Len(b) < Len(a)
  <2>1. Over(b, a)
    BY <1>1, <1>3 DEF Over
  <2> QED
    BY <1>1, <2>1, AboveIs
<1>4. CASE Len(a) = Len(b)
  BY <1>1, <1>4, SamePath
<1> QED
  BY <1>1, <1>2, <1>3, <1>4

LEMMA RootNode == Root \in Nodes /\ Len(Root) = 0 /\ Above(Root) = {}
<1>1. Root \in Nodes /\ Len(Root) = 0
  <2>1. Root \in Seq(Quadrants) /\ Len(Root) = 0
    BY DEF Root
  <2>2. 0 <= MaxDepth
    BY Depth
  <2> QED
    BY <2>1, <2>2, IsNode
<1> QED
  BY <1>1, AboveIs, NodeShape DEF Over

\* One step down, and one step up.
LEMMA ChildNode ==
  ASSUME NEW n \in Nodes, Len(n) < MaxDepth, NEW q \in Quadrants
  PROVE  /\ Append(n, q) \in Nodes /\ Len(Append(n, q)) = Len(n) + 1
         /\ Append(n, q) # Root
         /\ Front(Append(n, q)) = n /\ Last(Append(n, q)) = q
         /\ Above(Append(n, q)) = Above(n) \cup {n}
<1> DEFINE c == Append(n, q)
<1>1. n \in Seq(Quadrants) /\ Len(n) \in Nat
  BY NodeShape
<1>2. /\ c \in Seq(Quadrants) /\ Len(c) = Len(n) + 1 /\ c[Len(c)] = q
      /\ \A i \in 1..Len(n) : c[i] = n[i]
  BY <1>1
<1> HIDE DEF c
<1>3. c \in Nodes /\ c # Root
  BY <1>1, <1>2, IsNode, Depth, RootNode
<1>4. Front(c) = n
  <2>1. /\ SubSeq(c, 1, Len(n)) \in Seq(Quadrants) /\ Len(SubSeq(c, 1, Len(n))) = Len(n)
        /\ \A i \in 1..Len(n) : SubSeq(c, 1, Len(n))[i] = c[i]
    BY <1>1, <1>2
  <2>2. SubSeq(c, 1, Len(n)) = n
    BY <1>1, <1>2, <2>1, SeqEqual
  <2>3. Len(c) - 1 = Len(n)
    BY <1>1, <1>2
  <2> QED
    BY <2>2, <2>3 DEF Front
<1>5. ASSUME NEW a \in Nodes PROVE Over(a, c) <=> Over(a, n) \/ a = n
  <2>1. Len(a) \in Nat
    BY NodeShape
  <2>2. CASE Len(a) < Len(n)
    BY <1>1, <1>2, <2>1, <2>2 DEF Over
  <2>3. CASE Len(a) = Len(n)
    BY <1>1, <1>2, <2>1, <2>3, SamePath DEF Over
  <2>4. CASE Len(a) > Len(n)
    BY <1>1, <1>2, <2>1, <2>4 DEF Over
  <2> QED
    BY <1>1, <2>1, <2>2, <2>3, <2>4
<1>6. Above(c) = Above(n) \cup {n}
  BY <1>3, <1>5, AboveIs
<1> QED
  BY <1>2, <1>3, <1>4, <1>6 DEF c, Last

LEMMA ParentNode ==
  ASSUME NEW n \in Nodes, n # Root
  PROVE  /\ Front(n) \in Nodes /\ Len(n) = Len(Front(n)) + 1 /\ Last(n) \in Quadrants
         /\ Above(n) = Above(Front(n)) \cup {Front(n)}
<1>1. n \in Seq(Quadrants) /\ Len(n) \in Nat /\ Len(n) <= MaxDepth
  BY NodeShape
<1>2. Len(n) > 0
  BY <1>1 DEF Root
<1>3. PICK m, q : m = Front(n) /\ q = Last(n)
  OBVIOUS
<1>4. PICK k \in Nat : k = Len(n) - 1
  BY <1>1, <1>2
<1>5. /\ m \in Seq(Quadrants) /\ Len(m) = k /\ q \in Quadrants /\ q = n[Len(n)]
      /\ \A i \in 1..k : m[i] = n[i]
  <2>1. m = SubSeq(n, 1, k)
    BY <1>3, <1>4 DEF Front
  <2> QED
    BY <1>1, <1>2, <1>3, <1>4, <2>1 DEF Last
<1>6. k < MaxDepth /\ k <= MaxDepth
  BY <1>1, <1>4, Depth
<1>7. m \in Nodes
  BY <1>5, <1>6, IsNode
<1>8. n = Append(m, q)
  <2>1. /\ Append(m, q) \in Seq(Quadrants) /\ Len(Append(m, q)) = Len(n)
        /\ \A i \in 1..Len(n) : Append(m, q)[i] = n[i]
    BY <1>1, <1>4, <1>5
  <2> QED
    BY <1>1, <2>1, SeqEqual
<1> QED
  BY <1>3, <1>4, <1>5, <1>6, <1>7, <1>8, ChildNode

-----------------------------------------------------------------------------
(* Least numbers, and functions defined by recursion on depth *)

LEMMA Least ==
  ASSUME NEW S \in SUBSET Nat, S # {}
  PROVE  \E x \in S : \A y \in S : x <= y
<1> DEFINE R == OpToRel(<, Nat)
<1>1. PICK x \in S : \A y \in S : <<y, x>> \notin R
  <2> HIDE DEF R
  <2>1. IsWellFoundedOn(R, Nat)
    BY NatLessThanWellFounded DEF R
  <2> QED
    BY <2>1, WFMin
<1>2. \A y \in S : ~(y < x)
  BY <1>1 DEF OpToRel
<1> QED
  BY <1>2

LEMMA MinIs ==
  ASSUME NEW S \in SUBSET Nat, S # {}
  PROVE  Min(S) \in S /\ \A y \in S : Min(S) <= y
BY Least DEF Min

\* What holds of all numbers up to a bound if it holds of each one above others.
LEMMA UpTo ==
  ASSUME NEW a \in Nat, NEW b \in Nat, NEW S,
         \A k \in a..b : (\A j \in a..(k - 1) : j \in S) => k \in S
  PROVE  a..b \subseteq S
<1> SUFFICES ASSUME (a..b) \ S # {} PROVE FALSE
  OBVIOUS
<1>1. (a..b) \ S \in SUBSET Nat
  OBVIOUS
<1>2. PICK k \in (a..b) \ S : \A j \in (a..b) \ S : k <= j
  BY <1>1, Least
<1>3. \A j \in a..(k - 1) : j \in S
  BY <1>2
<1> QED
  BY <1>2, <1>3

RootBox == [minLat |-> 0, maxLat |-> Side, minLng |-> 0, maxLng |-> Side]
BoxOf(f, n) == IF n = Root THEN RootBox ELSE Quarter(f[Front(n)], Last(n))

LEMMA BoundsIs == \A n \in Nodes : Bounds[n] = BoxOf(Bounds, n)
<1> DEFINE Good(f, k) == \A n \in Nodes : Len(n) <= k => f[n] = BoxOf(f, n)
           S == {k \in 0..MaxDepth : \E f : f = [n \in Nodes |-> f[n]] /\ Good(f, k)}
<1>1. ASSUME NEW k \in 0..MaxDepth, \A j \in 0..(k - 1) : j \in S
      PROVE  k \in S
  <2>1. \E f : k > 0 => Good(f, k - 1)
    <3>1. CASE k = 0
      BY <3>1
    <3>2. CASE k > 0
      <4>1. k - 1 \in S
        BY <1>1, <3>2
      <4> QED
        BY <4>1
    <3> QED
      BY <3>1, <3>2
  <2>2. PICK f : k > 0 => Good(f, k - 1)
    BY <2>1
  <2> DEFINE g == [n \in Nodes |-> BoxOf(f, n)]
  <2>3. ASSUME NEW n \in Nodes, Len(n) <= k PROVE g[n] = BoxOf(g, n)
    <3>1. CASE n = Root
      BY <3>1 DEF BoxOf
    <3>2. CASE n # Root
      <4>1. Front(n) \in Nodes /\ Len(n) = Len(Front(n)) + 1
        BY <3>2, ParentNode
      <4>2. Len(Front(n)) <= k - 1 /\ k > 0
        BY <2>3, <4>1, NodeShape
      <4>3. f[Front(n)] = BoxOf(f, Front(n))
        BY <2>2, <4>1, <4>2
      <4>4. g[Front(n)] = f[Front(n)]
        BY <4>1, <4>3
      <4> QED
        BY <4>4 DEF BoxOf
    <3> QED
      BY <3>1, <3>2
  <2>4. g = [n \in Nodes |-> g[n]]
    OBVIOUS
  <2> QED
    BY <2>3, <2>4
<1> HIDE DEF S
<1>2. 0..MaxDepth \subseteq S
  BY <1>1, Depth, UpTo
<1>3. MaxDepth \in S
  BY <1>2, Depth
<1>4. PICK f : f = [n \in Nodes |-> f[n]] /\ Good(f, MaxDepth)
  BY <1>3 DEF S
<1>5. \A n \in Nodes : f[n] = BoxOf(f, n)
  BY <1>4, NodeShape
<1>6. f = [n \in Nodes |-> BoxOf(f, n)]
  BY <1>4, <1>5
<1>7. Bounds = [n \in Nodes |-> BoxOf(Bounds, n)]
  BY <1>6 DEF Bounds, BoxOf, RootBox
<1> QED
  BY <1>7

-----------------------------------------------------------------------------
(* Boxes *)

Places == Int \X Int

Box == {b \in [minLat : Int, maxLat : Int, minLng : Int, maxLng : Int] :
            b.minLat <= b.maxLat /\ b.minLng <= b.maxLng}

LEMMA SideTyped == Side \in Int /\ 0 <= Side
<1>1. Side \in Nat
  BY Zenon, QuadTreeAssumption
<1> QED
  BY <1>1

LEMMA Half ==
  ASSUME NEW a \in Int, NEW b \in Int, a <= b
  PROVE  Mid(a, b) \in Int /\ a <= Mid(a, b) /\ Mid(a, b) <= b
BY DEF Mid

\* A quarter of a box lies in the box.
LEMMA QuarterIs ==
  ASSUME NEW b \in Box, NEW q
  PROVE  /\ Quarter(b, q) \in Box
         /\ \A p \in Places : InBox(Quarter(b, q), p) => InBox(b, p)
<1> DEFINE lat == Mid(b.minLat, b.maxLat)
           lng == Mid(b.minLng, b.maxLng)
<1>1. /\ b.minLat \in Int /\ b.maxLat \in Int /\ b.minLng \in Int /\ b.maxLng \in Int
      /\ b.minLat <= b.maxLat /\ b.minLng <= b.maxLng
  BY DEF Box
<1>2. /\ lat \in Int /\ b.minLat <= lat /\ lat <= b.maxLat
      /\ lng \in Int /\ b.minLng <= lng /\ lng <= b.maxLng
  BY <1>1, Half
<1> HIDE DEF lat, lng
<1>3. Quarter(b, q) = [minLat |-> IF q \in {"nw", "ne"} THEN lat ELSE b.minLat,
                       maxLat |-> IF q \in {"nw", "ne"} THEN b.maxLat ELSE lat,
                       minLng |-> IF q \in {"nw", "sw"} THEN b.minLng ELSE lng,
                       maxLng |-> IF q \in {"nw", "sw"} THEN lng ELSE b.maxLng]
  BY DEF Quarter, lat, lng
<1>4. Quarter(b, q) \in Box
  BY <1>1, <1>2, <1>3 DEF Box
<1>5. ASSUME NEW p \in Places, InBox(Quarter(b, q), p) PROVE InBox(b, p)
  <2>1. Lat(p) \in Int /\ Lng(p) \in Int
    BY DEF Places, Lat, Lng
  <2> QED
    BY <1>1, <1>2, <1>3, <1>5, <2>1 DEF InBox
<1> QED
  BY <1>4, <1>5

LEMMA BoxTyped == \A n \in Nodes : Bounds[n] \in Box
<1> DEFINE S == {k \in 0..MaxDepth : \A n \in Nodes : Len(n) = k => Bounds[n] \in Box}
<1>1. ASSUME NEW k \in 0..MaxDepth, \A j \in 0..(k - 1) : j \in S
      PROVE  k \in S
  <2> SUFFICES ASSUME NEW n \in Nodes, Len(n) = k PROVE Bounds[n] \in Box
    OBVIOUS
  <2>1. CASE n = Root
    <3>1. Bounds[n] = RootBox
      BY <2>1, BoundsIs DEF BoxOf
    <3> QED
      BY <3>1, SideTyped DEF RootBox, Box
  <2>2. CASE n # Root
    <3>1. Front(n) \in Nodes /\ Len(Front(n)) \in 0..(k - 1)
      BY <2>2, ParentNode, NodeShape
    <3>2. Bounds[Front(n)] \in Box
      BY <1>1, <3>1
    <3>3. Bounds[n] = Quarter(Bounds[Front(n)], Last(n))
      BY <2>2, BoundsIs DEF BoxOf
    <3> QED
      BY <3>2, <3>3, QuarterIs
  <2> QED
    BY <2>1, <2>2
<1> HIDE DEF S
<1>2. 0..MaxDepth \subseteq S
  BY <1>1, Depth, UpTo
<1> QED
  BY <1>2, Depth, NodeShape DEF S

\* The boxes of the nodes above contain those below.
LEMMA BoxesNest ==
  ASSUME NEW p \in Places, NEW n \in Nodes, InBox(Bounds[n], p), NEW a \in Above(n)
  PROVE  InBox(Bounds[a], p)
<1> DEFINE Nested(m) == \A b \in Above(m) : InBox(Bounds[m], p) => InBox(Bounds[b], p)
           S == {k \in 0..MaxDepth : \A m \in Nodes : Len(m) = k => Nested(m)}
<1>1. ASSUME NEW k \in 0..MaxDepth, \A j \in 0..(k - 1) : j \in S
      PROVE  k \in S
  <2> SUFFICES ASSUME NEW m \in Nodes, Len(m) = k, NEW b \in Above(m), InBox(Bounds[m], p)
               PROVE  InBox(Bounds[b], p)
    OBVIOUS
  <2>1. m # Root
    BY RootNode
  <2>2. /\ Front(m) \in Nodes /\ Len(Front(m)) \in 0..(k - 1)
        /\ Above(m) = Above(Front(m)) \cup {Front(m)}
    BY <2>1, ParentNode, NodeShape
  <2>3. Bounds[m] = Quarter(Bounds[Front(m)], Last(m))
    BY <2>1, BoundsIs DEF BoxOf
  <2>4. InBox(Bounds[Front(m)], p)
    BY <2>2, <2>3, BoxTyped, QuarterIs
  <2>5. Len(Front(m)) \in S
    BY <1>1, <2>2
  <2> QED
    BY <2>2, <2>4, <2>5
<1> HIDE DEF S
<1>2. 0..MaxDepth \subseteq S
  BY <1>1, Depth, UpTo
<1>3. Len(n) \in S
  BY <1>2, Depth, NodeShape
<1> QED
  BY <1>3 DEF S

LEMMA RootOverAll == \A n \in Nodes : n = Root \/ Root \in Above(n)
<1> SUFFICES ASSUME NEW n \in Nodes, n # Root PROVE Root \in Above(n)
  OBVIOUS
<1>1. Len(n) = Len(Front(n)) + 1 /\ Front(n) \in Nodes
  BY ParentNode
<1>2. Len(Front(n)) \in Nat
  BY <1>1, NodeShape
<1>3. Over(Root, n)
  BY <1>1, <1>2, RootNode DEF Over
<1> QED
  BY <1>3, AboveIs, RootNode

\* _insertChild chooses a child whose box holds the place.
LEMMA ChildHolds ==
  ASSUME NEW n \in Nodes, Len(n) < MaxDepth, NEW p
  PROVE  /\ Child(n, p) \in Nodes /\ Len(Child(n, p)) = Len(n) + 1
         /\ Above(Child(n, p)) = Above(n) \cup {n}
         /\ p \in Places /\ InBox(Bounds[n], p) => InBox(Bounds[Child(n, p)], p)
<1> DEFINE north == Lat(p) >= Mid(Bounds[n].minLat, Bounds[n].maxLat)
           west == Lng(p) < Mid(Bounds[n].minLng, Bounds[n].maxLng)
<1>1. PICK q : q = IF north THEN IF west THEN "nw" ELSE "ne" ELSE IF west THEN "sw" ELSE "se"
  OBVIOUS
<1>2. q \in Quadrants /\ Child(n, p) = Append(n, q)
  BY <1>1 DEF Quadrants, Child
<1>3. /\ Child(n, p) \in Nodes /\ Len(Child(n, p)) = Len(n) + 1
      /\ Above(Child(n, p)) = Above(n) \cup {n}
      /\ Child(n, p) # Root /\ Front(Child(n, p)) = n /\ Last(Child(n, p)) = q
  BY <1>2, ChildNode
<1>4. ASSUME p \in Places, InBox(Bounds[n], p) PROVE InBox(Bounds[Child(n, p)], p)
  <2>1. Bounds[Child(n, p)] = Quarter(Bounds[n], q)
    BY <1>3, BoundsIs DEF BoxOf
  <2>2. PICK b \in Box : b = Bounds[n]
    BY BoxTyped
  <2>3. PICK lat, lng : lat = Mid(b.minLat, b.maxLat) /\ lng = Mid(b.minLng, b.maxLng)
    OBVIOUS
  <2>4. /\ b.minLat \in Int /\ b.maxLat \in Int /\ b.minLng \in Int /\ b.maxLng \in Int
        /\ b.minLat <= b.maxLat /\ b.minLng <= b.maxLng
        /\ Lat(p) \in Int /\ Lng(p) \in Int /\ lat \in Int /\ lng \in Int
    BY <1>4, <2>3, Half DEF Box, Places, Lat, Lng
  <2>5. Quarter(b, q) = [minLat |-> IF q \in {"nw", "ne"} THEN lat ELSE b.minLat,
                         maxLat |-> IF q \in {"nw", "ne"} THEN b.maxLat ELSE lat,
                         minLng |-> IF q \in {"nw", "sw"} THEN b.minLng ELSE lng,
                         maxLng |-> IF q \in {"nw", "sw"} THEN lng ELSE b.maxLng]
    BY <2>3 DEF Quarter
  <2>6. q \in {"nw", "ne"} <=> Lat(p) >= lat
    BY <1>1, <2>2, <2>3
  <2>7. q \in {"nw", "sw"} <=> Lng(p) < lng
    BY <1>1, <2>2, <2>3
  <2>8. /\ b.minLat <= Lat(p) /\ Lat(p) <= b.maxLat
        /\ b.minLng <= Lng(p) /\ Lng(p) <= b.maxLng
    BY <1>4, <2>2 DEF InBox
  <2>9. Quarter(b, q).minLat <= Lat(p) /\ Lat(p) <= Quarter(b, q).maxLat
    BY <2>4, <2>5, <2>6, <2>8
  <2>10. Quarter(b, q).minLng <= Lng(p) /\ Lng(p) <= Quarter(b, q).maxLng
    BY <2>4, <2>5, <2>7, <2>8
  <2> QED
    BY <2>1, <2>2, <2>9, <2>10 DEF InBox
<1> QED
  BY <1>3, <1>4

-----------------------------------------------------------------------------
(* Descents *)

Step(f, n, p, i) == IF i = Len(n) THEN n ELSE Child(f[i - 1], p)

LEMMA DescentIs ==
  ASSUME NEW n \in Nodes, NEW p
  PROVE  Descent(n, p) = [i \in Len(n)..MaxDepth |-> Step(Descent(n, p), n, p, i)]
<1> DEFINE Levels == Len(n)..MaxDepth
           Good(f, k) == \A i \in Levels : i <= k => f[i] = Step(f, n, p, i)
           S == {k \in Levels : \E f : f = [i \in Levels |-> f[i]] /\ Good(f, k)}
<1>0. Len(n) \in Nat /\ MaxDepth \in Nat /\ Len(n) <= MaxDepth
  BY NodeShape, Depth
<1>1. ASSUME NEW k \in Levels, \A j \in Len(n)..(k - 1) : j \in S
      PROVE  k \in S
  <2>1. \E f : k > Len(n) => Good(f, k - 1)
    <3>1. CASE k = Len(n)
      BY <3>1
    <3>2. CASE k > Len(n)
      <4>1. k - 1 \in S
        BY <1>0, <1>1, <3>2
      <4> QED
        BY <4>1
    <3> QED
      BY <1>0, <3>1, <3>2
  <2>2. PICK f : k > Len(n) => Good(f, k - 1)
    BY <2>1
  <2> DEFINE g == [i \in Levels |-> Step(f, n, p, i)]
  <2>3. ASSUME NEW i \in Levels, i <= k PROVE g[i] = Step(g, n, p, i)
    <3>1. CASE i = Len(n)
      BY <3>1 DEF Step
    <3>2. CASE i # Len(n)
      <4>1. i - 1 \in Levels /\ i - 1 <= k - 1 /\ k > Len(n)
        BY <1>0, <2>3, <3>2
      <4>2. f[i - 1] = Step(f, n, p, i - 1)
        BY <2>2, <4>1
      <4>3. g[i - 1] = f[i - 1]
        BY <4>1, <4>2
      <4> QED
        BY <4>3 DEF Step
    <3> QED
      BY <3>1, <3>2
  <2>4. g = [i \in Levels |-> g[i]]
    OBVIOUS
  <2> QED
    BY <2>3, <2>4
<1> HIDE DEF S
<1>2. Len(n)..MaxDepth \subseteq S
  BY <1>0, <1>1, UpTo
<1>3. MaxDepth \in S
  BY <1>0, <1>2
<1>4. PICK f : f = [i \in Levels |-> f[i]] /\ Good(f, MaxDepth)
  BY <1>3 DEF S
<1>5. \A i \in Levels : f[i] = Step(f, n, p, i)
  BY <1>0, <1>4
<1>6. f = [i \in Levels |-> Step(f, n, p, i)]
  BY <1>4, <1>5
<1>7. f = [i \in Len(n)..MaxDepth |-> IF i = Len(n) THEN n ELSE Child(f[i - 1], p)]
  BY <1>6 DEF Step
<1>8. Descent(n, p) = [i \in Len(n)..MaxDepth |->
          IF i = Len(n) THEN n ELSE Child(Descent(n, p)[i - 1], p)]
  BY <1>7 DEF Descent
<1> QED
  BY <1>8 DEF Step

\* A way down from n to the bottom, one node on every level.
Line(n, down) ==
    /\ DOMAIN down = Len(n)..MaxDepth
    /\ down[Len(n)] = n
    /\ \A i \in Len(n)..MaxDepth :
          /\ down[i] \in Nodes /\ Len(down[i]) = i
          /\ Above(down[i]) = Above(n) \cup {down[j] : j \in Len(n)..(i - 1)}

LEMMA DescentLine ==
  ASSUME NEW n \in Nodes, NEW p
  PROVE  /\ Line(n, Descent(n, p))
         /\ p \in Places /\ InBox(Bounds[n], p)
            => \A i \in Len(n)..MaxDepth : InBox(Bounds[Descent(n, p)[i]], p)
<1>1. PICK down : down = Descent(n, p)
  OBVIOUS
<1>0. Len(n) \in Nat /\ MaxDepth \in Nat /\ Len(n) <= MaxDepth
  BY NodeShape, Depth
<1>2. /\ DOMAIN down = Len(n)..MaxDepth
      /\ down[Len(n)] = n
      /\ \A i \in Len(n)..MaxDepth : i # Len(n) => down[i] = Child(down[i - 1], p)
  BY <1>0, <1>1, DescentIs DEF Step
<1> DEFINE Levels == Len(n)..MaxDepth
           Good(i) == /\ down[i] \in Nodes /\ Len(down[i]) = i
                      /\ Above(down[i]) = Above(n) \cup {down[j] : j \in Len(n)..(i - 1)}
                      /\ p \in Places /\ InBox(Bounds[n], p) => InBox(Bounds[down[i]], p)
           S == {k \in Levels : Good(k)}
<1>3. ASSUME NEW k \in Levels, \A j \in Len(n)..(k - 1) : j \in S
      PROVE  k \in S
  <2>1. CASE k = Len(n)
    <3>1. Len(n)..(k - 1) = {}
      BY <1>0, <2>1
    <3> QED
      BY <1>2, <2>1, <3>1
  <2>2. CASE k # Len(n)
    <3>1. PICK j \in Levels : j = k - 1 /\ j \in Len(n)..(k - 1) /\ j < MaxDepth
      BY <1>0, <2>2
    <3>2. Good(j)
      BY <1>3, <3>1
    <3>3. down[k] = Child(down[j], p)
      BY <1>2, <2>2, <3>1
    <3>4. Len(down[j]) < MaxDepth
      BY <3>1, <3>2
    <3>5. /\ down[k] \in Nodes /\ Len(down[k]) = j + 1
          /\ Above(down[k]) = Above(down[j]) \cup {down[j]}
          /\ p \in Places /\ InBox(Bounds[down[j]], p) => InBox(Bounds[down[k]], p)
      BY <3>2, <3>3, <3>4, ChildHolds
    <3>6. Len(n)..(k - 1) = (Len(n)..(j - 1)) \cup {j}
      BY <1>0, <3>1
    <3>7. Above(down[k]) = Above(n) \cup {down[i] : i \in Len(n)..(k - 1)}
      BY <3>2, <3>5, <3>6
    <3>8. j + 1 = k
      BY <3>1
    <3> QED
      BY <3>2, <3>5, <3>7, <3>8
  <2> QED
    BY <2>1, <2>2
<1> HIDE DEF S
<1>4. Levels \subseteq S
  BY <1>0, <1>3, UpTo
<1>5. \A i \in Levels : Good(i)
  BY <1>4 DEF S
<1> QED
  BY <1>1, <1>2, <1>5 DEF Line

\* Where a descent meets the undivided part of the tree.
LEMMA LeafOfLine ==
  ASSUME NEW n \in Nodes, NEW down, Line(n, down),
         NEW split, \A m \in split : Len(m) < MaxDepth
  PROVE  \E k \in Len(n)..MaxDepth :
            /\ LeafOf(split, down) = down[k]
            /\ down[k] \notin split
            /\ \A j \in Len(n)..(k - 1) : down[j] \in split
<1>0. Len(n) \in Nat /\ MaxDepth \in Nat /\ Len(n) <= MaxDepth
  BY NodeShape, Depth
<1>1. PICK S : S = {i \in DOMAIN down : down[i] \notin split}
  OBVIOUS
<1>2. S \in SUBSET Nat /\ S \subseteq Len(n)..MaxDepth
  BY <1>0, <1>1 DEF Line
<1>3. MaxDepth \in S
  <2>1. MaxDepth \in DOMAIN down /\ Len(down[MaxDepth]) = MaxDepth
    BY <1>0 DEF Line
  <2>2. ~(MaxDepth < MaxDepth)
    BY <1>0
  <2> QED
    BY <1>1, <2>1, <2>2
<1>4. PICK k \in S : k = Min(S) /\ \A j \in S : k <= j
  BY <1>2, <1>3, MinIs
<1>5. ASSUME NEW j \in Len(n)..(k - 1) PROVE down[j] \in split
  <2>1. j \in Len(n)..MaxDepth /\ ~(k <= j)
    BY <1>0, <1>2
  <2> QED
    BY <1>1, <1>4, <2>1 DEF Line
<1> QED
  BY <1>1, <1>2, <1>4, <1>5 DEF LeafOf

\* The nodes that a traversal of the tree with these divided nodes ends at.
LeavesOf(split) == {n \in Nodes \ split : Above(n) \subseteq split}

\* Divided nodes are not at the bottom, and what is above them is divided too.
Rooted(split) ==
    /\ split \subseteq Nodes
    /\ \A n \in split : Len(n) < MaxDepth /\ Above(n) \subseteq split

\* The leaf a place falls into on the way down from n.
LEMMA LeafOfDescent ==
  ASSUME NEW n \in Nodes, NEW p, NEW split, Rooted(split), Above(n) \subseteq split
  PROVE  /\ LeafOf(split, Descent(n, p)) \in LeavesOf(split)
         /\ \/ LeafOf(split, Descent(n, p)) = n
            \/ n \in Above(LeafOf(split, Descent(n, p)))
         /\ p \in Places /\ InBox(Bounds[n], p)
            => InBox(Bounds[LeafOf(split, Descent(n, p))], p)
<1>1. PICK down : down = Descent(n, p)
  OBVIOUS
<1>0. Len(n) \in Nat /\ MaxDepth \in Nat /\ Len(n) <= MaxDepth
  BY NodeShape, Depth
<1>2. /\ Line(n, down)
      /\ p \in Places /\ InBox(Bounds[n], p)
         => \A i \in Len(n)..MaxDepth : InBox(Bounds[down[i]], p)
  BY <1>1, DescentLine
<1>3. PICK k \in Len(n)..MaxDepth :
            /\ LeafOf(split, down) = down[k]
            /\ down[k] \notin split
            /\ \A j \in Len(n)..(k - 1) : down[j] \in split
  <2>1. \A m \in split : Len(m) < MaxDepth
    BY DEF Rooted
  <2> QED
    BY <1>2, <2>1, LeafOfLine
<1>4. down[k] \in Nodes /\ Above(down[k]) = Above(n) \cup {down[j] : j \in Len(n)..(k - 1)}
  BY <1>2 DEF Line
<1>5. down[k] \in LeavesOf(split)
  BY <1>3, <1>4 DEF LeavesOf
<1>6. down[k] = n \/ n \in Above(down[k])
  <2>1. CASE k = Len(n)
    BY <1>2, <2>1 DEF Line
  <2>2. CASE k # Len(n)
    <3>1. Len(n) \in Len(n)..(k - 1) /\ down[Len(n)] = n
      BY <1>0, <1>2, <2>2 DEF Line
    <3> QED
      BY <1>4, <3>1
  <2> QED
    BY <2>1, <2>2
<1> QED
  BY <1>1, <1>2, <1>3, <1>5, <1>6

-----------------------------------------------------------------------------
(* Trees *)

LEMMA NoneApart == None \notin Sites /\ None \notin Nodes /\ Sites \subseteq Places
BY Zenon, QuadTreeAssumption DEF Places

LEMMA RoomIs == Capacity \in Nat /\ Capacity > 0
<1>1. Capacity \in Nat \ {0}
  BY Zenon, QuadTreeAssumption
<1> QED
  BY <1>1

LEMMA FewDrivers == IsFiniteSet(Drivers)
BY Zenon, QuadTreeAssumption

Trees == [divided : SUBSET Nodes, points : [Nodes -> SUBSET Drivers],
          map : [Drivers -> Sites \cup {None}], leaves : [Drivers -> Nodes \cup {None}]]

\* The cached leaf of a driver with a place is a leaf whose box holds the place, and
\* the points are where the cache says.
Sound(t) ==
    /\ t \in Trees
    /\ Rooted(t.divided)
    /\ \A d \in Drivers :
          IF t.map[d] = None THEN t.leaves[d] = None
          ELSE /\ t.leaves[d] \in LeavesOf(t.divided)
               /\ InBox(Bounds[t.leaves[d]], t.map[d])
    /\ \A d \in Drivers, n \in Nodes : d \in t.points[n] <=> t.leaves[d] = n

-----------------------------------------------------------------------------
(* Insertion *)

\* The parts of Inserted: the nodes for p from the root down, the level k of the leaf,
\* and the level the point gets to.
UnderOf(t, leaf, n) == {e \in t.points[leaf] : n \in Range(Descent(leaf, t.map[e]))}

HomeOf(t, split, leaf, e) == LeafOf(split, Descent(leaf, t.map[e]))

SplitOf(t, down, k, depth) == t.divided \cup {down[i] : i \in k..(depth - 1)}

Stops(t, leaf, down, i) == i = MaxDepth \/ Cardinality(UnderOf(t, leaf, down[i])) < Capacity

Way(t, p, leaf, down, k, depth) ==
    /\ k \in 0..MaxDepth /\ depth \in k..MaxDepth
    /\ Line(Root, down) /\ leaf = down[k]
    /\ \A i \in 0..MaxDepth : InBox(Bounds[down[i]], p)
    /\ leaf \notin t.divided
    /\ \A j \in 0..(k - 1) : down[j] \in t.divided
    /\ Stops(t, leaf, down, depth)
    /\ \A i \in k..(depth - 1) : ~Stops(t, leaf, down, i)

Result(t, d, p, leaf, down, k, depth) ==
    [divided |-> SplitOf(t, down, k, depth),
     points |-> [n \in Nodes |->
        (IF n = leaf THEN {} ELSE t.points[n])
            \cup {e \in t.points[leaf] : HomeOf(t, SplitOf(t, down, k, depth), leaf, e) = n}
            \cup IF n = down[depth] THEN {d} ELSE {}],
     map |-> [t.map EXCEPT ![d] = p],
     leaves |-> [e \in Drivers |->
        IF e = d THEN down[depth]
        ELSE IF e \in t.points[leaf]
             THEN HomeOf(t, SplitOf(t, down, k, depth), leaf, e) ELSE t.leaves[e]]]

LEMMA InsertedIs ==
  ASSUME NEW t, Sound(t), NEW d, NEW p \in Sites, InBox(Bounds[Root], p)
  PROVE  \E leaf, down, k, depth :
            /\ Way(t, p, leaf, down, k, depth)
            /\ Inserted(t, d, p) = Result(t, d, p, leaf, down, k, depth)
<1> DEFINE L == LeafOf(t.divided, Descent(Root, p))
           S(leaf, down) == {i \in Len(leaf)..MaxDepth : Stops(t, leaf, down, i)}
<1>1. Inserted(t, d, p) = Result(t, d, p, L, Descent(Root, p), Len(L),
                                 Min(S(L, Descent(Root, p))))
  BY DEF Inserted, Result, HomeOf, SplitOf, Stops, UnderOf
<1> HIDE DEF S
<1>2. PICK leaf, down, k, depth : /\ down = Descent(Root, p)
                                 /\ leaf = LeafOf(t.divided, down)
                                 /\ k = Len(leaf)
                                 /\ depth = Min(S(leaf, down))
  OBVIOUS
<1>0. MaxDepth \in Nat /\ Len(Root) = 0 /\ Root \in Nodes
  BY Depth, RootNode
<1>3. Line(Root, down) /\ \A i \in 0..MaxDepth : InBox(Bounds[down[i]], p)
  BY <1>0, <1>2, DescentLine, NoneApart
<1>4. \A m \in t.divided : Len(m) < MaxDepth
  BY DEF Sound, Rooted
<1>5. PICK i \in 0..MaxDepth :
            /\ LeafOf(t.divided, down) = down[i]
            /\ down[i] \notin t.divided
            /\ \A j \in 0..(i - 1) : down[j] \in t.divided
  BY <1>0, <1>3, <1>4, LeafOfLine
<1>6. i = k
  BY <1>0, <1>2, <1>3, <1>5 DEF Line
<1>7. /\ k \in 0..MaxDepth /\ leaf = down[k] /\ leaf \notin t.divided
      /\ \A j \in 0..(k - 1) : down[j] \in t.divided
  BY <1>2, <1>5, <1>6
<1>8. S(leaf, down) = {j \in k..MaxDepth : Stops(t, leaf, down, j)}
  BY <1>2 DEF S
<1>9. S(leaf, down) \in SUBSET Nat /\ MaxDepth \in S(leaf, down)
  BY <1>0, <1>7, <1>8 DEF Stops
<1>10. depth \in S(leaf, down) /\ \A j \in S(leaf, down) : depth <= j
  BY <1>2, <1>9, MinIs
<1>11. ASSUME NEW j \in k..(depth - 1) PROVE ~Stops(t, leaf, down, j)
  <2>1. j \in k..MaxDepth /\ ~(depth <= j)
    BY <1>0, <1>7, <1>8, <1>10
  <2> QED
    BY <1>8, <1>10, <2>1
<1>12. Way(t, p, leaf, down, k, depth)
  <2>1. depth \in k..MaxDepth /\ Stops(t, leaf, down, depth)
    BY <1>8, <1>10
  <2> QED
    BY <1>3, <1>7, <1>11, <2>1 DEF Way
<1>13. Inserted(t, d, p) = Result(t, d, p, leaf, down, k, depth)
  BY <1>1, <1>2
<1> QED
  BY <1>12, <1>13

\* What the way down shows: the tree stays rooted, the point gets to a leaf of it, and
\* the leaves but the one that split are leaves still.
LEMMA WayIs ==
  ASSUME NEW t, Sound(t), NEW p, NEW leaf, NEW down, NEW k, NEW depth,
         Way(t, p, leaf, down, k, depth),
         NEW split, split = SplitOf(t, down, k, depth)
  PROVE  /\ leaf \in LeavesOf(t.divided) /\ Len(leaf) = k /\ k \in Nat
         /\ t.divided \subseteq split /\ Rooted(split) /\ Above(leaf) \subseteq split
         /\ \A m \in split \ t.divided : m = leaf \/ leaf \in Above(m)
         /\ down[depth] \in LeavesOf(split) /\ Len(down[depth]) = depth
         /\ down[depth] = leaf \/ leaf \in Above(down[depth])
         /\ leaf \in split => leaf \in Above(down[depth])
         /\ \A i \in k..(depth - 1) : down[i] \in Above(down[depth]) /\ down[i] \in split
         /\ \A n \in LeavesOf(t.divided) : n # leaf => n \in LeavesOf(split)
<1>0. MaxDepth \in Nat /\ Len(Root) = 0 /\ Root \in Nodes /\ Above(Root) = {}
  BY Depth, RootNode
<1>1. /\ k \in 0..MaxDepth /\ depth \in k..MaxDepth /\ k \in Nat /\ depth \in Nat
      /\ leaf = down[k] /\ leaf \notin t.divided
      /\ \A j \in 0..(k - 1) : down[j] \in t.divided
  BY <1>0 DEF Way
<1>2. \A i \in 0..MaxDepth : /\ down[i] \in Nodes /\ Len(down[i]) = i
                             /\ Above(down[i]) = {down[j] : j \in 0..(i - 1)}
  BY <1>0 DEF Way, Line
<1>3. t.divided \subseteq Nodes /\ \A n \in t.divided : Len(n) < MaxDepth /\ Above(n) \subseteq t.divided
  BY DEF Sound, Rooted
<1>4. split = t.divided \cup {down[i] : i \in k..(depth - 1)}
  BY DEF SplitOf
<1>5. leaf \in LeavesOf(t.divided) /\ Len(leaf) = k
  <2>1. leaf \in Nodes /\ Len(leaf) = k /\ Above(leaf) = {down[j] : j \in 0..(k - 1)}
    BY <1>1, <1>2
  <2> QED
    BY <1>1, <2>1 DEF LeavesOf
<1>6. ASSUME NEW i \in k..(depth - 1)
      PROVE  /\ i \in 0..MaxDepth /\ i < MaxDepth /\ i < depth
             /\ down[i] \in Above(down[depth]) /\ down[i] \in split
             /\ Above(down[i]) \subseteq split
             /\ i = k \/ leaf \in Above(down[i])
  <2>1. /\ i \in 0..MaxDepth /\ i < MaxDepth /\ i < depth /\ i \in 0..(depth - 1)
        /\ depth \in 0..MaxDepth
        /\ i = k \/ k \in 0..(i - 1)
    BY <1>0, <1>1
  <2>2. down[i] \in Above(down[depth]) /\ down[i] \in split
    BY <1>2, <1>4, <2>1
  <2>3. ASSUME NEW j \in 0..(i - 1) PROVE down[j] \in split
    <3>1. j \in 0..(k - 1) \/ j \in k..(depth - 1)
      BY <1>1, <2>1
    <3> QED
      BY <1>1, <1>4, <3>1
  <2>4. i = k \/ leaf \in Above(down[i])
    BY <1>1, <1>2, <2>1
  <2>5. Above(down[i]) = {down[j] : j \in 0..(i - 1)}
    BY <1>2, <2>1
  <2>6. Above(down[i]) \subseteq split
    BY <2>3, <2>5
  <2> QED
    BY <2>1, <2>2, <2>4, <2>6
<1>7. Rooted(split) /\ t.divided \subseteq split
  BY <1>2, <1>3, <1>4, <1>6 DEF Rooted
<1>8. \A m \in split \ t.divided : m = leaf \/ leaf \in Above(m)
  BY <1>1, <1>4, <1>6
<1>9. Above(leaf) \subseteq split
  BY <1>5, <1>7 DEF LeavesOf
<1>10. depth \in 0..MaxDepth /\ (depth = k \/ k \in 0..(depth - 1))
  BY <1>0, <1>1
<1>11. down[depth] = leaf \/ leaf \in Above(down[depth])
  BY <1>1, <1>2, <1>10
<1>12. down[depth] \notin t.divided
  BY <1>1, <1>3, <1>11
<1>13. \A i \in k..(depth - 1) : down[i] # down[depth]
  BY <1>2, <1>6, <1>10
<1>14. Above(down[depth]) \subseteq split
  <2>1. ASSUME NEW j \in 0..(depth - 1) PROVE down[j] \in split
    <3>1. j \in 0..(k - 1) \/ j \in k..(depth - 1)
      BY <1>1
    <3> QED
      BY <1>1, <1>4, <3>1
  <2>2. Above(down[depth]) = {down[j] : j \in 0..(depth - 1)}
    BY <1>2, <1>10
  <2> QED
    BY <2>1, <2>2
<1>15. down[depth] \in LeavesOf(split) /\ Len(down[depth]) = depth
  BY <1>2, <1>4, <1>10, <1>12, <1>13, <1>14 DEF LeavesOf
<1>16. leaf \in split => leaf \in Above(down[depth])
  BY <1>11, <1>15 DEF LeavesOf
<1>17. ASSUME NEW n \in LeavesOf(t.divided), n # leaf PROVE n \in LeavesOf(split)
  BY <1>1, <1>7, <1>8, <1>17 DEF LeavesOf
<1> QED
  BY <1>1, <1>5, <1>6, <1>7, <1>8, <1>9, <1>11, <1>15, <1>16, <1>17

\* Where the points of the leaf go.
LEMMA HomeIs ==
  ASSUME NEW t, Sound(t), NEW p, NEW leaf, NEW down, NEW k, NEW depth,
         Way(t, p, leaf, down, k, depth),
         NEW split, split = SplitOf(t, down, k, depth), NEW e \in Drivers, e \in t.points[leaf]
  PROVE  /\ t.map[e] # None /\ t.leaves[e] = leaf
         /\ HomeOf(t, split, leaf, e) \in LeavesOf(split)
         /\ HomeOf(t, split, leaf, e) = leaf \/ leaf \in Above(HomeOf(t, split, leaf, e))
         /\ InBox(Bounds[HomeOf(t, split, leaf, e)], t.map[e])
<1>1. leaf \in Nodes /\ Above(leaf) \subseteq split /\ Rooted(split)
  BY WayIs DEF LeavesOf
<1>2. t.leaves[e] = leaf
  BY <1>1 DEF Sound
<1>3. t.map[e] # None /\ InBox(Bounds[leaf], t.map[e])
  BY <1>1, <1>2, NoneApart DEF Sound
<1>4. t.map[e] \in Places
  BY <1>3, NoneApart DEF Sound, Trees
<1> QED
  BY <1>1, <1>2, <1>3, <1>4, LeafOfDescent DEF HomeOf

LEMMA SoundInserted ==
  ASSUME NEW t, Sound(t), NEW d \in Drivers, t.map[d] = None,
         NEW p \in Sites, InBox(Bounds[Root], p)
  PROVE  Sound(Inserted(t, d, p)) /\ Inserted(t, d, p).map = [t.map EXCEPT ![d] = p]
<1>1. PICK leaf, down, k, depth :
            /\ Way(t, p, leaf, down, k, depth)
            /\ Inserted(t, d, p) = Result(t, d, p, leaf, down, k, depth)
  BY InsertedIs
<1>2. PICK u : u = Result(t, d, p, leaf, down, k, depth)
  OBVIOUS
<1>3. PICK split, last : split = SplitOf(t, down, k, depth) /\ last = down[depth]
  OBVIOUS
<1>4. /\ leaf \in LeavesOf(t.divided) /\ Rooted(split) /\ last \in LeavesOf(split)
      /\ \A n \in LeavesOf(t.divided) : n # leaf => n \in LeavesOf(split)
  BY <1>1, <1>3, WayIs
<1>5. InBox(Bounds[last], p)
  <2>1. depth \in 0..MaxDepth
    BY <1>1, Depth DEF Way
  <2> QED
    BY <1>1, <1>3, <2>1 DEF Way
<1>6. ASSUME NEW e \in Drivers, e \in t.points[leaf]
      PROVE  /\ t.map[e] # None /\ t.leaves[e] = leaf /\ e # d
             /\ HomeOf(t, split, leaf, e) \in LeavesOf(split)
             /\ InBox(Bounds[HomeOf(t, split, leaf, e)], t.map[e])
  BY <1>1, <1>3, <1>6, HomeIs
<1>7. /\ t.divided \subseteq Nodes /\ t.points \in [Nodes -> SUBSET Drivers]
      /\ t.map \in [Drivers -> Sites \cup {None}]
      /\ t.leaves \in [Drivers -> Nodes \cup {None}]
  BY DEF Sound, Trees
<1>8. /\ split \subseteq Nodes /\ last \in Nodes /\ leaf \in Nodes
      /\ \A e \in Drivers : e \in t.points[leaf] => HomeOf(t, split, leaf, e) \in Nodes
  BY <1>4, <1>6 DEF Rooted, LeavesOf
<1>9. /\ u.divided = split
      /\ u.points = [n \in Nodes |->
            (IF n = leaf THEN {} ELSE t.points[n])
                \cup {e \in t.points[leaf] : HomeOf(t, split, leaf, e) = n}
                \cup IF n = last THEN {d} ELSE {}]
      /\ u.map = [t.map EXCEPT ![d] = p]
      /\ u.leaves = [e \in Drivers |->
            IF e = d THEN last
            ELSE IF e \in t.points[leaf] THEN HomeOf(t, split, leaf, e) ELSE t.leaves[e]]
      /\ u = [divided |-> u.divided, points |-> u.points, map |-> u.map, leaves |-> u.leaves]
  BY <1>2, <1>3 DEF Result
<1>10. /\ u.points \in [Nodes -> SUBSET Drivers]
       /\ u.map \in [Drivers -> Sites \cup {None}]
       /\ u.leaves \in [Drivers -> Nodes \cup {None}]
  <2>1. \A n \in Nodes : u.points[n] \in SUBSET Drivers
    BY <1>7, <1>8, <1>9
  <2>2. \A e \in Drivers : u.leaves[e] \in Nodes \cup {None}
    BY <1>7, <1>8, <1>9
  <2> QED
    BY <1>7, <1>9, <2>1, <2>2
<1>11. u \in Trees
  BY <1>8, <1>9, <1>10 DEF Trees
<1>12. ASSUME NEW e \in Drivers
       PROVE  IF u.map[e] = None THEN u.leaves[e] = None
              ELSE u.leaves[e] \in LeavesOf(u.divided) /\ InBox(Bounds[u.leaves[e]], u.map[e])
  <2>1. CASE e = d
    BY <1>4, <1>5, <1>7, <1>9, <2>1, NoneApart
  <2>2. CASE e # d /\ e \in t.points[leaf]
    BY <1>6, <1>7, <1>9, <2>2
  <2>3. CASE e # d /\ e \notin t.points[leaf]
    <3>1. u.map[e] = t.map[e] /\ u.leaves[e] = t.leaves[e]
      BY <1>7, <1>9, <2>3
    <3>2. t.map[e] # None => t.leaves[e] # leaf
      BY <1>8, <2>3 DEF Sound
    <3>3. t.map[e] # None => t.leaves[e] \in LeavesOf(split)
      BY <1>4, <3>2 DEF Sound
    <3> QED
      BY <1>9, <3>1, <3>3 DEF Sound
  <2> QED
    BY <2>1, <2>2, <2>3
<1>13. ASSUME NEW e \in Drivers, NEW n \in Nodes PROVE e \in u.points[n] <=> u.leaves[e] = n
  <2>1. e \in t.points[n] <=> t.leaves[e] = n
    BY DEF Sound
  <2>2. t.leaves[d] = None /\ d \notin t.points[n] /\ d \notin t.points[leaf]
    BY <1>8, NoneApart DEF Sound
  <2>3. e \in u.points[n] <=> \/ n # leaf /\ e \in t.points[n]
                              \/ e \in t.points[leaf] /\ HomeOf(t, split, leaf, e) = n
                              \/ n = last /\ e = d
    BY <1>9
  <2>4. CASE e = d
    BY <1>9, <2>2, <2>3, <2>4
  <2>5. CASE e # d /\ e \in t.points[leaf]
    BY <1>6, <1>9, <2>1, <2>3, <2>5
  <2>6. CASE e # d /\ e \notin t.points[leaf]
    BY <1>9, <2>1, <2>3, <2>6
  <2> QED
    BY <2>4, <2>5, <2>6
<1>14. Sound(u)
  BY <1>4, <1>9, <1>11, <1>12, <1>13 DEF Sound
<1> QED
  BY <1>1, <1>2, <1>9, <1>14

-----------------------------------------------------------------------------
(* Removal *)

\* The tree without driver d, before any collapse.
Without(t, d) ==
    [t EXCEPT !.points[t.leaves[d]] = @ \ {d}, !.map[d] = None, !.leaves[d] = None]

TopsOf(t, leaf) == {a \in Above(leaf) : Collapses(t, a, leaf)}

InsideOf(t, n) == UNION {t.points[m] : m \in Below(n)}

LEMMA PlacedIsThere ==
  ASSUME NEW t, Sound(t), NEW d \in Drivers, t.map[d] # None
  PROVE  /\ t.leaves[d] \in LeavesOf(t.divided) /\ t.leaves[d] \in Nodes
         /\ t.leaves[d] # None /\ d \in t.points[t.leaves[d]]
BY NoneApart DEF Sound, LeavesOf

LEMMA SoundWithout ==
  ASSUME NEW t, Sound(t), NEW d \in Drivers, t.map[d] # None
  PROVE  /\ Sound(Without(t, d))
         /\ Without(t, d).divided = t.divided
         /\ Without(t, d).map = [t.map EXCEPT ![d] = None]
         /\ Without(t, d).leaves = [t.leaves EXCEPT ![d] = None]
         /\ \A n \in Nodes : Without(t, d).points[n] = t.points[n] \ {d}
<1>1. PICK leaf \in Nodes : leaf = t.leaves[d] /\ leaf # None /\ d \in t.points[leaf]
  BY PlacedIsThere
<1>2. PICK u : u = Without(t, d)
  OBVIOUS
<1>3. t \in Trees
  BY DEF Sound
<1>4. /\ t.divided \subseteq Nodes /\ t.points \in [Nodes -> SUBSET Drivers]
      /\ t.map \in [Drivers -> Sites \cup {None}]
      /\ t.leaves \in [Drivers -> Nodes \cup {None}]
  BY <1>3 DEF Trees
<1>5. u = [t EXCEPT !.points = [t.points EXCEPT ![leaf] = @ \ {d}],
                    !.map = [t.map EXCEPT ![d] = None],
                    !.leaves = [t.leaves EXCEPT ![d] = None]]
  BY <1>1, <1>2 DEF Without
<1>6. /\ u.divided = t.divided
      /\ u.points = [t.points EXCEPT ![leaf] = @ \ {d}]
      /\ u.map = [t.map EXCEPT ![d] = None]
      /\ u.leaves = [t.leaves EXCEPT ![d] = None]
      /\ u = [divided |-> u.divided, points |-> u.points, map |-> u.map, leaves |-> u.leaves]
  BY <1>3, <1>5 DEF Trees
<1>7. \A n \in Nodes : u.points[n] = t.points[n] \ {d}
  BY <1>1, <1>4, <1>6 DEF Sound
<1>8. /\ u.points \in [Nodes -> SUBSET Drivers]
      /\ u.map \in [Drivers -> Sites \cup {None}]
      /\ u.leaves \in [Drivers -> Nodes \cup {None}]
  BY <1>4, <1>6
<1>9. u \in Trees
  BY <1>4, <1>6, <1>8 DEF Trees
<1>10. ASSUME NEW e \in Drivers
       PROVE  /\ e = d => u.map[e] = None /\ u.leaves[e] = None
              /\ e # d => u.map[e] = t.map[e] /\ u.leaves[e] = t.leaves[e]
  BY <1>4, <1>6
<1>11. \A e \in Drivers, n \in Nodes : e \in u.points[n] <=> u.leaves[e] = n
  BY <1>7, <1>10, NoneApart DEF Sound
<1>12. \A e \in Drivers :
          IF u.map[e] = None THEN u.leaves[e] = None
          ELSE /\ u.leaves[e] \in LeavesOf(u.divided)
               /\ InBox(Bounds[u.leaves[e]], u.map[e])
  BY <1>6, <1>10 DEF Sound
<1>13. Sound(u)
  BY <1>6, <1>9, <1>11, <1>12 DEF Sound
<1> QED
  BY <1>2, <1>6, <1>7, <1>13

\* Of several nodes above a leaf, one is above the others.
LEMMA HighestIs ==
  ASSUME NEW leaf \in Nodes, NEW tops, tops \subseteq Above(leaf), tops # {}
  PROVE  LET top == CHOOSE a \in tops : tops \subseteq {a} \cup Below(a)
         IN  top \in tops /\ tops \subseteq {top} \cup Below(top)
<1>1. tops \subseteq Nodes
  BY BelowAbove
<1>2. PICK S : S = {Len(a) : a \in tops}
  OBVIOUS
<1>3. S \in SUBSET Nat /\ S # {}
  BY <1>1, <1>2, NodeShape
<1>4. PICK x \in S : \A y \in S : x <= y
  BY <1>3, Least
<1>5. PICK a \in tops : Len(a) = x
  BY <1>2
<1>6. ASSUME NEW b \in tops, b # a PROVE b \in Below(a)
  <2>1. a \in Nodes /\ b \in Nodes /\ Len(a) \in Nat /\ Len(b) \in Nat /\ Len(a) <= Len(b)
    BY <1>1, <1>2, <1>4, <1>5, NodeShape
  <2>2. b \notin Above(a)
    BY <2>1, BelowAbove
  <2>3. a \in Above(b)
    BY <1>6, <2>2, OnePath
  <2> QED
    BY <2>1, <2>3, BelowAbove
<1>7. \E c \in tops : tops \subseteq {c} \cup Below(c)
  BY <1>6
<1> QED
  BY <1>7

LEMMA Replaced ==
  ASSUME NEW t \in Trees, NEW x, NEW y, NEW z
  PROVE  [t EXCEPT !.divided = x, !.points = y, !.leaves = z]
            = [divided |-> x, points |-> y, map |-> t.map, leaves |-> z]
<1> DEFINE u == [t EXCEPT !.divided = x, !.points = y, !.leaves = z]
<1>1. u.divided = x /\ u.points = y /\ u.leaves = z /\ u.map = t.map
  BY DEF Trees
<1>2. PICK v : v = u
  OBVIOUS
<1>3. v = [divided |-> v.divided, points |-> v.points, map |-> v.map, leaves |-> v.leaves]
  BY <1>2 DEF Trees
<1> HIDE DEF u
<1>4. v = [divided |-> x, points |-> y, map |-> t.map, leaves |-> z]
  BY <1>1, <1>2, <1>3
<1> QED
  BY <1>2, <1>4, Zenon DEF u

\* What a collapse does to the tree.
LEMMA GatheredIs ==
  ASSUME NEW t, Sound(t), NEW a \in t.divided
  PROVE  /\ a \in Nodes
         /\ Gathered(t, a) = [divided |-> t.divided \ ({a} \cup Below(a)),
                              points |-> [n \in Nodes |->
                                  IF n = a THEN InsideOf(t, a)
                                  ELSE IF n \in Below(a) THEN {} ELSE t.points[n]],
                              map |-> t.map,
                              leaves |-> [e \in Drivers |->
                                  IF e \in InsideOf(t, a) THEN a ELSE t.leaves[e]]]
         /\ InsideOf(t, a) = {e \in Drivers : t.leaves[e] \in Below(a)}
         /\ a \notin Below(a)
<1>1. a \in Nodes
  BY DEF Sound, Rooted
<1>2. t \in Trees
  BY DEF Sound
<1>3. Gathered(t, a) = [divided |-> t.divided \ ({a} \cup Below(a)),
                        points |-> [n \in Nodes |->
                            IF n = a THEN InsideOf(t, a)
                            ELSE IF n \in Below(a) THEN {} ELSE t.points[n]],
                        map |-> t.map,
                        leaves |-> [e \in Drivers |->
                            IF e \in InsideOf(t, a) THEN a ELSE t.leaves[e]]]
  <2>1. PICK x, y, z : /\ x = t.divided \ ({a} \cup Below(a))
                       /\ y = [n \in Nodes |->
                                  IF n = a THEN InsideOf(t, a)
                                  ELSE IF n \in Below(a) THEN {} ELSE t.points[n]]
                       /\ z = [e \in Drivers |->
                                  IF e \in InsideOf(t, a) THEN a ELSE t.leaves[e]]
    OBVIOUS
  <2>2. Gathered(t, a) = [t EXCEPT !.divided = x, !.points = y, !.leaves = z]
    BY <1>2, <2>1 DEF Gathered, InsideOf, Trees
  <2>3. Gathered(t, a) = [divided |-> x, points |-> y, map |-> t.map, leaves |-> z]
    BY <1>2, <2>2, Replaced
  <2> QED
    BY <2>1, <2>3
<1>4. InsideOf(t, a) = {e \in Drivers : t.leaves[e] \in Below(a)}
  <2>1. Below(a) \subseteq Nodes
    BY <1>1, BelowAbove
  <2>2. \A m \in Below(a) : t.points[m] \subseteq Drivers
    BY <1>2, <2>1 DEF Trees
  <2> QED
    BY <2>1, <2>2 DEF InsideOf, Sound
<1>5. a \notin Below(a)
  BY <1>1, BelowAbove
<1> QED
  BY <1>1, <1>3, <1>4, <1>5

LEMMA SoundGathered ==
  ASSUME NEW t, Sound(t), NEW a \in t.divided
  PROVE  Sound(Gathered(t, a)) /\ Gathered(t, a).map = t.map
<1>1. PICK all, split : all = InsideOf(t, a) /\ split = t.divided \ ({a} \cup Below(a))
  OBVIOUS
<1>2. PICK u : u = Gathered(t, a)
  OBVIOUS
<1>3. /\ a \in Nodes /\ a \notin Below(a)
      /\ all = {e \in Drivers : t.leaves[e] \in Below(a)}
      /\ u = [divided |-> split,
              points |-> [n \in Nodes |->
                  IF n = a THEN all ELSE IF n \in Below(a) THEN {} ELSE t.points[n]],
              map |-> t.map,
              leaves |-> [e \in Drivers |-> IF e \in all THEN a ELSE t.leaves[e]]]
  BY <1>1, <1>2, GatheredIs
<1>4. /\ t.divided \subseteq Nodes /\ t.points \in [Nodes -> SUBSET Drivers]
      /\ t.map \in [Drivers -> Sites \cup {None}]
      /\ t.leaves \in [Drivers -> Nodes \cup {None}]
  BY DEF Sound, Trees
<1>5. ASSUME NEW n \in Nodes, n \notin Below(a), Above(n) \subseteq t.divided
      PROVE  Above(n) \subseteq split
  <2> SUFFICES ASSUME NEW m \in Above(n), m \in {a} \cup Below(a) PROVE FALSE
    BY <1>1, <1>5
  <2>1. m \in Nodes
    BY BelowAbove
  <2>2. m = a \/ a \in Above(m)
    BY <1>3, <2>1, BelowAbove
  <2>3. a \in Above(n)
    BY <2>2, AboveAbove
  <2> QED
    BY <1>3, <1>5, <2>3, BelowAbove
<1>6. Rooted(split)
  BY <1>1, <1>4, <1>5 DEF Sound, Rooted
<1>7. a \in LeavesOf(split)
  BY <1>1, <1>3, <1>5 DEF Sound, Rooted, LeavesOf
<1>8. \A n \in LeavesOf(t.divided) : n \notin Below(a) => n \in LeavesOf(split) /\ n # a
  BY <1>1, <1>5 DEF LeavesOf
<1>9. u \in Trees
  <2>1. u.points \in [Nodes -> SUBSET Drivers] /\ u.leaves \in [Drivers -> Nodes \cup {None}]
    BY <1>3, <1>4
  <2>2. split \subseteq Nodes
    BY <1>6 DEF Rooted
  <2> QED
    BY <1>3, <1>4, <2>1, <2>2 DEF Trees
<1>10. ASSUME NEW e \in Drivers, t.map[e] # None
       PROVE  u.leaves[e] \in LeavesOf(split) /\ InBox(Bounds[u.leaves[e]], t.map[e])
  <2>1. /\ t.leaves[e] \in LeavesOf(t.divided) /\ t.leaves[e] \in Nodes
        /\ InBox(Bounds[t.leaves[e]], t.map[e]) /\ t.map[e] \in Places
    BY <1>4, <1>10, NoneApart DEF Sound, LeavesOf
  <2>2. CASE e \in all
    <3>1. u.leaves[e] = a
      BY <1>3, <2>2
    <3>2. a \in Above(t.leaves[e])
      BY <1>3, <2>1, <2>2, BelowAbove
    <3>3. InBox(Bounds[a], t.map[e])
      BY <2>1, <3>2, BoxesNest
    <3> QED
      BY <1>7, <3>1, <3>3
  <2>3. CASE e \notin all
    <3>1. u.leaves[e] = t.leaves[e] /\ t.leaves[e] \notin Below(a)
      BY <1>3, <2>3
    <3> QED
      BY <1>8, <2>1, <3>1
  <2> QED
    BY <2>2, <2>3
<1>11. ASSUME NEW e \in Drivers, t.map[e] = None PROVE u.leaves[e] = None
  <2>1. t.leaves[e] = None
    BY <1>11 DEF Sound
  <2>2. e \notin all
    BY <1>3, <2>1, NoneApart DEF Below
  <2> QED
    BY <1>3, <2>1, <2>2
<1>12. ASSUME NEW e \in Drivers, NEW n \in Nodes PROVE e \in u.points[n] <=> u.leaves[e] = n
  <2>1. e \in t.points[n] <=> t.leaves[e] = n
    BY DEF Sound
  <2>2. t.leaves[e] # a
    <3>1. t.leaves[e] # None => t.leaves[e] \in LeavesOf(t.divided)
      BY DEF Sound
    <3> QED
      BY <1>3, <3>1, NoneApart DEF LeavesOf
  <2>3. CASE e \in all
    BY <1>3, <2>1, <2>3
  <2>4. CASE e \notin all
    BY <1>3, <2>1, <2>2, <2>4
  <2> QED
    BY <2>3, <2>4
<1>13. /\ u.divided = split /\ u.map = t.map
       /\ \A e \in Drivers :
            IF t.map[e] = None THEN u.leaves[e] = None
            ELSE u.leaves[e] \in LeavesOf(split) /\ InBox(Bounds[u.leaves[e]], t.map[e])
  BY <1>3, <1>10, <1>11
<1>14. Sound(u)
  BY <1>6, <1>9, <1>12, <1>13 DEF Sound
<1> QED
  BY <1>2, <1>13, <1>14

\* remove as a case distinction: nothing to collapse, or the highest node that is.
LEMMA RemovedIs ==
  ASSUME NEW t, Sound(t), NEW d \in Drivers, t.map[d] # None
  PROVE  \E leaf, rest, tops :
            /\ leaf = t.leaves[d] /\ leaf \in LeavesOf(t.divided) /\ leaf \in Nodes
            /\ rest = Without(t, d) /\ tops = TopsOf(rest, leaf)
            /\ tops = {} => Removed(t, d) = rest
            /\ tops # {} => \E top \in tops : /\ tops \subseteq {top} \cup Below(top)
                                              /\ top \in rest.divided
                                              /\ Removed(t, d) = Gathered(rest, top)
<1>1. PICK leaf, rest, tops :
         leaf = t.leaves[d] /\ rest = Without(t, d) /\ tops = TopsOf(rest, leaf)
  OBVIOUS
<1>2. leaf \in LeavesOf(t.divided) /\ leaf \in Nodes /\ leaf # None /\ d \in t.points[leaf]
  BY <1>1, PlacedIsThere
<1>3. Removed(t, d) = IF tops = {} THEN rest
                      ELSE Gathered(rest, CHOOSE a \in tops : tops \subseteq {a} \cup Below(a))
  BY <1>1, <1>2 DEF Removed, Without, TopsOf
<1>4. ASSUME tops # {}
      PROVE  \E top \in tops : /\ tops \subseteq {top} \cup Below(top)
                               /\ top \in rest.divided
                               /\ Removed(t, d) = Gathered(rest, top)
  <2>1. PICK top : top = CHOOSE a \in tops : tops \subseteq {a} \cup Below(a)
    OBVIOUS
  <2>2. tops \subseteq Above(leaf)
    BY <1>1 DEF TopsOf
  <2>3. top \in tops /\ tops \subseteq {top} \cup Below(top)
    BY <1>2, <1>4, <2>1, <2>2, HighestIs
  <2>4. rest.divided = t.divided
    BY <1>1, SoundWithout
  <2>5. top \in rest.divided
    BY <1>2, <2>2, <2>3, <2>4 DEF LeavesOf
  <2> QED
    BY <1>3, <1>4, <2>1, <2>3, <2>5
<1> QED
  BY <1>1, <1>2, <1>3, <1>4

LEMMA SoundRemoved ==
  ASSUME NEW t, Sound(t), NEW d \in Drivers, t.map[d] # None
  PROVE  Sound(Removed(t, d)) /\ Removed(t, d).map = [t.map EXCEPT ![d] = None]
<1>1. PICK leaf, rest, tops :
            /\ leaf = t.leaves[d] /\ leaf \in LeavesOf(t.divided) /\ leaf \in Nodes
            /\ rest = Without(t, d) /\ tops = TopsOf(rest, leaf)
            /\ tops = {} => Removed(t, d) = rest
            /\ tops # {} => \E top \in tops : /\ tops \subseteq {top} \cup Below(top)
                                              /\ top \in rest.divided
                                              /\ Removed(t, d) = Gathered(rest, top)
  BY RemovedIs
<1>2. Sound(rest) /\ rest.map = [t.map EXCEPT ![d] = None]
  BY <1>1, SoundWithout
<1>3. CASE tops = {}
  BY <1>1, <1>2, <1>3
<1>4. CASE tops # {}
  BY <1>1, <1>2, <1>4, SoundGathered
<1> QED
  BY <1>3, <1>4

-----------------------------------------------------------------------------
(* The operations *)

LEMMA SoundPlaced ==
  ASSUME NEW t, Sound(t), NEW d \in Drivers, NEW p \in Sites
  PROVE  /\ Sound(Placed(t, d, p))
         /\ Placed(t, d, p).map
               = [t.map EXCEPT ![d] = IF InBox(Bounds[Root], p) THEN p ELSE None]
<1>1. PICK w : w = IF t.map[d] = None THEN t ELSE Removed(t, d)
  OBVIOUS
<1>2. t.map \in [Drivers -> Sites \cup {None}]
  BY DEF Sound, Trees
<1>3. Sound(w) /\ w.map = [t.map EXCEPT ![d] = None]
  <2>1. CASE t.map[d] = None
    BY <1>1, <1>2, <2>1
  <2>2. CASE t.map[d] # None
    BY <1>1, <2>2, SoundRemoved
  <2> QED
    BY <2>1, <2>2
<1>4. w.map[d] = None
  BY <1>2, <1>3
<1>5. CASE InBox(Bounds[Root], p)
  <2>1. Placed(t, d, p) = Inserted(w, d, p)
    BY <1>1, <1>5 DEF Placed
  <2>2. Sound(Inserted(w, d, p)) /\ Inserted(w, d, p).map = [w.map EXCEPT ![d] = p]
    <3>1. Sound(w) /\ w.map[d] = None /\ d \in Drivers /\ p \in Sites /\ InBox(Bounds[Root], p)
      BY <1>3, <1>4, <1>5
    <3>2. Sound(Inserted(w, d, p))
      BY <3>1, SoundInserted, Zenon
    <3>3. Inserted(w, d, p).map = [w.map EXCEPT ![d] = p]
      BY <3>1, SoundInserted, SMTT(30)
    <3> QED
      BY <3>2, <3>3
  <2>3. [w.map EXCEPT ![d] = p] = [t.map EXCEPT ![d] = p]
    BY <1>2, <1>3
  <2> QED
    BY <1>5, <2>1, <2>2, <2>3
<1>6. CASE ~InBox(Bounds[Root], p)
  <2>1. Placed(t, d, p) = w
    BY <1>1, <1>6 DEF Placed
  <2> QED
    BY <1>3, <1>6, <2>1
<1> QED
  BY <1>5, <1>6

\* A driver moves inside its leaf.
Moved(t, d, p) ==
    [divided |-> t.divided, points |-> t.points, map |-> [t.map EXCEPT ![d] = p],
     leaves |-> t.leaves]

LEMMA SoundMoved ==
  ASSUME NEW t, Sound(t), NEW d \in Drivers, t.map[d] # None,
         NEW p \in Sites, InBox(Bounds[t.leaves[d]], p)
  PROVE  Sound(Moved(t, d, p)) /\ InBox(Bounds[Root], p)
<1>1. PICK u : u = Moved(t, d, p)
  OBVIOUS
<1>2. t \in Trees /\ t.map \in [Drivers -> Sites \cup {None}]
  BY DEF Sound, Trees
<1>3. /\ u.divided = t.divided /\ u.points = t.points /\ u.leaves = t.leaves
      /\ u.map = [t.map EXCEPT ![d] = p]
  BY <1>1 DEF Moved
<1>4. u \in Trees
  <2>1. [t.map EXCEPT ![d] = p] \in [Drivers -> Sites \cup {None}]
    BY <1>2
  <2> QED
    BY <1>1, <1>2, <2>1 DEF Moved, Trees
<1>5. ASSUME NEW e \in Drivers
      PROVE  IF u.map[e] = None THEN u.leaves[e] = None
             ELSE u.leaves[e] \in LeavesOf(u.divided) /\ InBox(Bounds[u.leaves[e]], u.map[e])
  <2>1. CASE e = d
    BY <1>2, <1>3, <2>1, NoneApart DEF Sound
  <2>2. CASE e # d
    BY <1>2, <1>3, <2>2 DEF Sound
  <2> QED
    BY <2>1, <2>2
<1>6. Sound(u)
  BY <1>3, <1>4, <1>5 DEF Sound
<1>7. InBox(Bounds[Root], p)
  <2>1. t.leaves[d] \in Nodes /\ p \in Places
    BY NoneApart, PlacedIsThere
  <2>2. t.leaves[d] = Root \/ Root \in Above(t.leaves[d])
    BY <2>1, RootOverAll
  <2> QED
    BY <2>1, <2>2, BoxesNest
<1> QED
  BY <1>1, <1>6, <1>7

\* What every step makes of the tree and of the drivers' places.
SoundTree == Sound(Tree)

Written(d, p) == [driverMap EXCEPT ![d] = IF InBox(Bounds[Root], p) THEN p ELSE None]

LEMMA TreeBecomes ==
  ASSUME NEW u, Sound(u), Becomes(u)
  PROVE  SoundTree' /\ driverMap' = u.map
<1>1. u = [divided |-> u.divided, points |-> u.points, map |-> u.map, leaves |-> u.leaves]
  BY DEF Sound, Trees
<1>2. Tree' = u
  BY <1>1 DEF Becomes, Tree
<1> QED
  BY <1>2 DEF SoundTree, Becomes

LEMMA InitSoundTree == Init => SoundTree
<1> SUFFICES ASSUME Init PROVE Sound(Tree)
  BY DEF SoundTree
<1>1. PICK t : t = Tree
  OBVIOUS
<1>2. /\ t = [divided |-> {}, points |-> [n \in Nodes |-> {}],
              map |-> [d \in Drivers |-> None], leaves |-> [d \in Drivers |-> None]]
  BY <1>1 DEF Init, Tree
<1>3. t \in Trees
  BY <1>2 DEF Trees
<1>4. Sound(t)
  BY <1>2, <1>3, NoneApart DEF Sound, Rooted
<1> QED
  BY <1>1, <1>4

LEMMA TreeIs == Tree.map = driverMap /\ Tree.leaves = driverLeaves
BY DEF Tree

LEMMA RemoveDriverIs ==
  ASSUME SoundTree, NEW d \in Drivers, RemoveDriver(d)
  PROVE  SoundTree' /\ driverMap' = [driverMap EXCEPT ![d] = None]
<1>1. PICK t : t = Tree /\ t.map = driverMap
  BY TreeIs, Zenon
<1>2. Sound(t) /\ t.map[d] # None /\ Becomes(Removed(t, d))
  BY <1>1 DEF SoundTree, RemoveDriver
<1>3. Sound(Removed(t, d)) /\ Removed(t, d).map = [t.map EXCEPT ![d] = None]
  BY <1>2, SoundRemoved
<1> QED
  BY <1>1, <1>2, <1>3, TreeBecomes

LEMMA InsertDriverIs ==
  ASSUME SoundTree, NEW d \in Drivers, NEW p \in Sites, InsertDriver(d, p)
  PROVE  SoundTree' /\ driverMap' = Written(d, p)
<1>1. PICK t : t = Tree /\ t.map = driverMap
  BY TreeIs, Zenon
<1>2. Sound(t) /\ Becomes(Placed(t, d, p))
  BY <1>1 DEF SoundTree, InsertDriver
<1>3. /\ Sound(Placed(t, d, p))
      /\ Placed(t, d, p).map
            = [t.map EXCEPT ![d] = IF InBox(Bounds[Root], p) THEN p ELSE None]
  BY <1>2, SoundPlaced
<1> QED
  BY <1>1, <1>2, <1>3, TreeBecomes DEF Written

LEMMA UpdateInLeafIs ==
  ASSUME SoundTree, NEW d \in Drivers, NEW p \in Sites, UpdateInLeaf(d, p)
  PROVE  SoundTree' /\ driverMap[d] # None /\ driverMap' = Written(d, p)
<1>1. PICK t : t = Tree /\ t.map = driverMap /\ t.leaves = driverLeaves
  BY TreeIs, Zenon
<1>2. Sound(t) /\ t.map[d] # None /\ InBox(Bounds[t.leaves[d]], p)
  BY <1>1 DEF SoundTree, UpdateInLeaf
<1>3. Sound(Moved(t, d, p)) /\ InBox(Bounds[Root], p)
  BY <1>2, SoundMoved
<1>4. Becomes(Moved(t, d, p))
  BY <1>1 DEF UpdateInLeaf, Becomes, Moved, Tree
<1>5. Moved(t, d, p).map = [t.map EXCEPT ![d] = p]
  BY DEF Moved
<1> QED
  BY <1>1, <1>2, <1>3, <1>4, <1>5, TreeBecomes DEF Written

LEMMA UpdateAcrossIs ==
  ASSUME SoundTree, NEW d \in Drivers, NEW p \in Sites, UpdateAcross(d, p)
  PROVE  SoundTree' /\ driverMap[d] # None /\ driverMap' = Written(d, p)
<1>1. PICK t : t = Tree /\ t.map = driverMap
  BY TreeIs, Zenon
<1>2. PICK w : w = Removed(t, d)
  OBVIOUS
<1>3. Sound(t) /\ t.map[d] # None /\ Becomes(Placed(w, d, p))
  BY <1>1, <1>2 DEF SoundTree, UpdateAcross
<1>4. Sound(w) /\ w.map = [t.map EXCEPT ![d] = None]
  BY <1>2, <1>3, SoundRemoved
<1>5. /\ Sound(Placed(w, d, p))
      /\ Placed(w, d, p).map
            = [w.map EXCEPT ![d] = IF InBox(Bounds[Root], p) THEN p ELSE None]
  BY <1>4, SoundPlaced
<1>6. t.map \in [Drivers -> Sites \cup {None}]
  BY <1>3 DEF Sound, Trees
<1>7. \A x : [w.map EXCEPT ![d] = x] = [t.map EXCEPT ![d] = x]
  BY <1>4, <1>6
<1> QED
  BY <1>1, <1>3, <1>5, <1>7, TreeBecomes DEF Written

\* The five kinds of steps.
LEMMA StepIs ==
  ASSUME SoundTree, [Next]_vars
  PROVE  /\ SoundTree'
         /\ \/ driverMap' = driverMap
            \/ \E d \in Drivers :
                 \/ driverMap' = [driverMap EXCEPT ![d] = None]
                 \/ \E p \in Sites : driverMap' = Written(d, p)
<1>1. CASE UNCHANGED vars
  BY <1>1 DEF vars, SoundTree, Tree
<1>2. ASSUME NEW d \in Drivers, RemoveDriver(d)
      PROVE  SoundTree' /\ driverMap' = [driverMap EXCEPT ![d] = None]
  BY <1>2, RemoveDriverIs
<1>3. ASSUME NEW d \in Drivers, NEW p \in Sites,
             InsertDriver(d, p) \/ UpdateInLeaf(d, p) \/ UpdateAcross(d, p)
      PROVE  SoundTree' /\ driverMap' = Written(d, p)
  BY <1>3, InsertDriverIs, UpdateInLeafIs, UpdateAcrossIs
<1> QED
  BY <1>1, <1>2, <1>3 DEF Next

-----------------------------------------------------------------------------
(* The theorems *)

\* The cache of leaves and the tree agree, whatever is split and collapsed.
THEOREM TreeInvariant == Spec => []SoundTree
BY InitSoundTree, StepIs, PTL DEF Spec

\* The cached leaf of every driver with a place is the one leaf it is in, a traversal
\* reaches it, and its box holds the place; no other driver is in any node.
THEOREM LeavesExactHolds == Spec => []LeavesExact
<1>1. ASSUME SoundTree PROVE LeavesExact
  <2>1. PICK t : t = Tree /\ Sound(t)
    BY <1>1 DEF SoundTree
  <2>2. /\ divided = t.divided /\ points = t.points
        /\ driverMap = t.map /\ driverLeaves = t.leaves
    BY <2>1 DEF Tree
  <2>3. Leaves = LeavesOf(t.divided)
    BY <2>2 DEF Leaves, LeavesOf
  <2> SUFFICES ASSUME NEW d \in Drivers
               PROVE  IF t.map[d] = None
                      THEN {n \in Nodes : d \in t.points[n]} = {} /\ t.leaves[d] = None
                      ELSE /\ {n \in Nodes : d \in t.points[n]} = {t.leaves[d]}
                           /\ t.leaves[d] \in LeavesOf(t.divided)
                           /\ InBox(Bounds[t.leaves[d]], t.map[d])
    BY <2>2, <2>3 DEF LeavesExact
  <2>4. CASE t.map[d] = None
    BY <2>1, <2>4, NoneApart DEF Sound
  <2>5. CASE t.map[d] # None
    BY <2>1, <2>5 DEF Sound, LeavesOf
  <2> QED
    BY <2>4, <2>5
<1> QED
  BY <1>1, TreeInvariant, PTL

\* A traversal of the leaves finds every driver at the place last written.
FoundIn(t) ==
    [d \in Drivers |-> IF d \in UNION {t.points[n] : n \in LeavesOf(t.divided)}
                      THEN t.map[d] ELSE None]

LEMMA FoundIs ==
  ASSUME NEW t, Sound(t)
  PROVE  FoundIn(t) = t.map
<1>1. \A d \in Drivers : t.map[d] # None => d \in UNION {t.points[n] : n \in LeavesOf(t.divided)}
  BY DEF Sound, LeavesOf
<1>2. t.map = [d \in Drivers |-> t.map[d]]
  BY DEF Sound, Trees
<1> QED
  BY <1>1, <1>2 DEF FoundIn

LEMMA FoundBarIs ==
  /\ SoundTree => foundBar = driverMap
  /\ SoundTree' => foundBar' = driverMap'
<1>1. ASSUME SoundTree PROVE foundBar = driverMap
  <2>1. PICK t : t = Tree
    OBVIOUS
  <2>2. t.divided = divided /\ t.points = points /\ t.map = driverMap
    BY <2>1 DEF Tree
  <2>3. FoundIn(t) = t.map
    BY <1>1, <2>1, FoundIs DEF SoundTree
  <2> QED
    BY <2>2, <2>3 DEF FoundIn, foundBar, Leaves, LeavesOf
<1>2. ASSUME SoundTree' PROVE foundBar' = driverMap'
  <2>1. PICK t : t = Tree'
    OBVIOUS
  <2>2. t.divided = divided' /\ t.points = points' /\ t.map = driverMap'
    BY <2>1 DEF Tree
  <2>3. FoundIn(t) = t.map
    BY <1>2, <2>1, FoundIs DEF SoundTree
  <2> QED
    BY <2>2, <2>3 DEF FoundIn, foundBar, Leaves, LeavesOf
<1> QED
  BY <1>1, <1>2

\* The index of available drivers is a map from drivers to places: whatever is split
\* and collapsed, a traversal finds a driver where it was last written, and nobody who
\* was removed or who left the region.
THEOREM IndexRefinement == Spec => ImplementsIndex
<1>1. ASSUME Init PROVE Index!Init
  <2>1. foundBar = driverMap
    BY <1>1, InitSoundTree, FoundBarIs
  <2> QED
    BY <1>1, <2>1 DEF Init, Index!Init
<1>2. ASSUME SoundTree, [Next]_vars PROVE [Index!Next]_foundBar
  <2>1. foundBar = driverMap /\ foundBar' = driverMap'
    BY <1>2, StepIs, FoundBarIs
  <2>2. CASE driverMap' = driverMap
    BY <2>1, <2>2
  <2>3. ASSUME NEW d \in Drivers, driverMap' = [driverMap EXCEPT ![d] = None]
        PROVE  Index!Next
    <3>1. Index!Remove(d)
      BY <2>1, <2>3 DEF Index!Remove
    <3> QED
      BY <3>1 DEF Index!Next
  <2>4. ASSUME NEW d \in Drivers, NEW p \in Sites, driverMap' = Written(d, p)
        PROVE  Index!Next
    <3>1. Index!Insert(d, p)
      BY <2>1, <2>4 DEF Index!Insert, Index!Put, Written
    <3> QED
      BY <3>1 DEF Index!Next
  <2> QED
    BY <1>2, <2>2, <2>3, <2>4, StepIs
<1> QED
  BY <1>1, <1>2, TreeInvariant, PTL DEF Spec, ImplementsIndex, Index!Spec

-----------------------------------------------------------------------------
(* Every split is needed *)

Fits(S) == Cardinality(S) <= Capacity

Needed(t) ==
    /\ \A n \in LeavesOf(t.divided) : Fits(t.points[n]) \/ Len(n) = MaxDepth
    /\ \A n \in t.divided : ~Fits(InsideOf(t, n))

\* Sets of drivers are finite, and smaller ones fit where larger ones do.
LEMMA FitsIs ==
  ASSUME NEW S, S \subseteq Drivers
  PROVE  /\ Cardinality(S) \in Nat
         /\ \A T \in SUBSET S : Fits(S) => Fits(T)
         /\ \A T \in SUBSET S : ~Fits(T) => ~Fits(S)
<1>1. IsFiniteSet(S)
  BY FewDrivers, FS_Subset
<1>2. ASSUME NEW T \in SUBSET S
      PROVE  Cardinality(T) \in Nat /\ Cardinality(T) <= Cardinality(S)
  BY <1>1, FS_Subset, FS_CardinalityType
<1> QED
  BY <1>1, <1>2, RoomIs, FS_CardinalityType DEF Fits

LEMMA OneMore ==
  ASSUME NEW S, S \subseteq Drivers, NEW d \in Drivers \ S
  PROVE  Cardinality(S \cup {d}) = Cardinality(S) + 1
<1>1. IsFiniteSet(S)
  BY FewDrivers, FS_Subset
<1> QED
  BY <1>1, FS_AddElement

LEMMA EmptyFits == Fits({})
BY FS_EmptySet, RoomIs DEF Fits

\* The points of a tree are where the cache says.
LEMMA InsideIs ==
  ASSUME NEW t, Sound(t), NEW n \in Nodes
  PROVE  /\ InsideOf(t, n) = {e \in Drivers : t.leaves[e] \in Below(n)}
         /\ t.points[n] = {e \in Drivers : t.leaves[e] = n}
<1>1. Below(n) \subseteq Nodes
  BY BelowAbove
<1>2. \A m \in Nodes : t.points[m] \subseteq Drivers
  BY DEF Sound, Trees
<1> QED
  BY <1>1, <1>2 DEF InsideOf, Sound

LEMMA NeededInserted ==
  ASSUME NEW t, Sound(t), Needed(t), NEW d \in Drivers, t.map[d] = None,
         NEW p \in Sites, InBox(Bounds[Root], p)
  PROVE  Needed(Inserted(t, d, p))
<1>1. PICK leaf, down, k, depth :
            /\ Way(t, p, leaf, down, k, depth)
            /\ Inserted(t, d, p) = Result(t, d, p, leaf, down, k, depth)
  BY InsertedIs
<1>2. PICK u : u = Inserted(t, d, p)
  OBVIOUS
<1>3. PICK split, last, held :
         split = SplitOf(t, down, k, depth) /\ last = down[depth] /\ held = t.points[leaf]
  OBVIOUS
<1>4. Sound(u)
  BY <1>2, SoundInserted
<1>5. /\ leaf \in LeavesOf(t.divided) /\ leaf \in Nodes /\ leaf \notin t.divided
      /\ Len(leaf) = k /\ k \in Nat
      /\ t.divided \subseteq split /\ Rooted(split) /\ Above(leaf) \subseteq split
      /\ \A m \in split \ t.divided : m = leaf \/ leaf \in Above(m)
      /\ last \in LeavesOf(split) /\ last \in Nodes /\ Len(last) = depth
      /\ last = leaf \/ leaf \in Above(last)
      /\ leaf \in split => leaf \in Above(last)
      /\ \A i \in k..(depth - 1) : down[i] \in Above(last) /\ down[i] \in split
  BY <1>1, <1>3, WayIs DEF LeavesOf
<1>6. /\ u.divided = split
      /\ u.leaves = [e \in Drivers |->
            IF e = d THEN last
            ELSE IF e \in held THEN HomeOf(t, split, leaf, e) ELSE t.leaves[e]]
  BY <1>1, <1>2, <1>3 DEF Result
<1>7. t.divided \subseteq Nodes /\ split \subseteq Nodes
  BY <1>5 DEF Sound, Trees, Rooted
<1>8. t.leaves[d] = None /\ d \notin held /\ held \subseteq Drivers
  BY <1>3, <1>5, NoneApart DEF Sound, Trees
<1>9. \A e \in Drivers : e \in held <=> t.leaves[e] = leaf
  BY <1>3, <1>5 DEF Sound
<1>10. ASSUME NEW e \in held
       PROVE  /\ u.leaves[e] = HomeOf(t, split, leaf, e)
              /\ u.leaves[e] = leaf \/ leaf \in Above(u.leaves[e])
              /\ u.leaves[e] \in LeavesOf(split)
  <2>1. e \in Drivers /\ e # d
    BY <1>8
  <2>2. u.leaves[e] = HomeOf(t, split, leaf, e)
    BY <1>6, <2>1
  <2> QED
    BY <1>1, <1>3, <2>1, <2>2, HomeIs
<1>11. u.leaves[d] = last /\ \A e \in Drivers : e # d /\ e \notin held => u.leaves[e] = t.leaves[e]
  BY <1>6
<1>12. \A e \in Drivers : t.leaves[e] # None => t.leaves[e] \in LeavesOf(t.divided)
  BY DEF Sound
\* A divided node keeps what is below it.
<1>13. ASSUME NEW n \in t.divided PROVE ~Fits(InsideOf(u, n))
  <2>1. n \in Nodes
    BY <1>7
  <2>2. ASSUME NEW e \in Drivers, t.leaves[e] \in Below(n) PROVE u.leaves[e] \in Below(n)
    <3>1. e # d
      BY <1>8, <2>2, NoneApart DEF Below
    <3>2. CASE e \in held
      <4>1. leaf \in Below(n) /\ u.leaves[e] \in Nodes
        BY <1>9, <1>10, <2>2, <3>2 DEF LeavesOf
      <4>2. n \in Above(leaf)
        BY <1>5, <2>1, <4>1, BelowAbove
      <4>3. n \in Above(u.leaves[e])
        BY <1>10, <3>2, <4>1, <4>2, AboveAbove
      <4> QED
        BY <2>1, <4>1, <4>3, BelowAbove
    <3>3. CASE e \notin held
      BY <1>11, <2>2, <3>1, <3>3
    <3> QED
      BY <3>2, <3>3
  <2>3. InsideOf(t, n) \subseteq InsideOf(u, n) /\ InsideOf(u, n) \subseteq Drivers
    BY <1>4, <2>1, <2>2, InsideIs
  <2> QED
    BY <2>3, FitsIs DEF Needed
\* A node that is split had as many points on its way as a leaf may hold, and one more.
<1>14. ASSUME NEW i \in k..(depth - 1) PROVE ~Fits(InsideOf(u, down[i]))
  <2>1. i \in k..MaxDepth /\ i \in 0..MaxDepth /\ i < MaxDepth
    BY <1>1, <1>5, Depth DEF Way
  <2>2. /\ down[i] \in Nodes /\ Len(down[i]) = i /\ down[i] \in Above(last) /\ down[i] \in split
    BY <1>1, <1>5, <2>1, RootNode DEF Way, Line
  <2>3. PICK under : under = UnderOf(t, leaf, down[i])
    OBVIOUS
  <2>4. ~(Cardinality(under) < Capacity)
    BY <1>1, <2>3 DEF Way, Stops
  <2>5. under \subseteq held /\ under \subseteq Drivers /\ d \notin under
    BY <1>3, <1>8, <2>3 DEF UnderOf
  <2>6. ASSUME NEW e \in under PROVE u.leaves[e] \in Below(down[i])
    <3>1. PICK line : line = Descent(leaf, t.map[e])
      OBVIOUS
    <3>2. Line(leaf, line)
      BY <1>5, <3>1, DescentLine
    <3>3. PICK j \in k..MaxDepth : line[j] = down[i]
      BY <1>5, <2>3, <2>6, <3>1, <3>2 DEF UnderOf, Range, Line
    <3>4. j = i /\ line[i] = down[i]
      BY <1>5, <2>2, <3>2, <3>3 DEF Line
    <3>5. PICK h \in k..MaxDepth : LeafOf(split, line) = line[h] /\ line[h] \notin split
      <4>1. \A m \in split : Len(m) < MaxDepth
        BY <1>5 DEF Rooted
      <4> QED
        BY <1>5, <3>2, <4>1, LeafOfLine
    <3>6. u.leaves[e] = line[h]
      BY <1>10, <2>5, <3>1, <3>5 DEF HomeOf
    <3>7. /\ line[h] \in Nodes /\ Above(line[h]) = Above(leaf) \cup {line[x] : x \in k..(h - 1)}
          /\ line[i] \in Nodes /\ Above(line[i]) = Above(leaf) \cup {line[x] : x \in k..(i - 1)}
      BY <1>5, <2>1, <3>2, <3>5 DEF Line
    <3>8. ~(h < i)
      <4> SUFFICES ASSUME h < i PROVE FALSE
        OBVIOUS
      <4>1. h \in k..(i - 1)
        BY <2>1, <3>5, <1>5, Depth
      <4>2. line[h] \in Above(down[i])
        BY <3>4, <3>7, <4>1
      <4> QED
        BY <1>5, <2>2, <3>5, <4>2 DEF Rooted
    <3>9. h # i
      BY <2>2, <3>4, <3>5
    <3>10. i \in k..(h - 1)
      BY <1>5, <2>1, <3>5, <3>8, <3>9, Depth
    <3>11. down[i] \in Above(line[h])
      BY <3>4, <3>7, <3>10
    <3> QED
      BY <2>2, <3>6, <3>7, <3>11, BelowAbove
  <2>7. u.leaves[d] \in Below(down[i])
    BY <1>5, <1>11, <2>2, BelowAbove
  <2>8. under \cup {d} \subseteq InsideOf(u, down[i]) /\ InsideOf(u, down[i]) \subseteq Drivers
    BY <1>4, <2>2, <2>5, <2>6, <2>7, InsideIs
  <2>9. Cardinality(under \cup {d}) = Cardinality(under) + 1
    BY <2>5, OneMore
  <2>10. ~Fits(under \cup {d})
    BY <2>4, <2>5, <2>9, FitsIs, RoomIs DEF Fits
  <2> QED
    BY <2>8, <2>10, FitsIs
\* The leaf the point gets to has room for it, or is at the bottom.
<1>15. Fits(u.points[last]) \/ Len(last) = MaxDepth
  <2>1. CASE depth = MaxDepth
    BY <1>5, <2>1
  <2>2. CASE depth # MaxDepth
    <3>1. PICK under : under = UnderOf(t, leaf, last)
      OBVIOUS
    <3>2. Cardinality(under) < Capacity
      BY <1>1, <1>3, <2>2, <3>1 DEF Way, Stops
    <3>3. under \subseteq held /\ under \subseteq Drivers /\ d \notin under
      BY <1>3, <1>8, <3>1 DEF UnderOf
    <3>4. ASSUME NEW e \in Drivers, u.leaves[e] = last, e # d PROVE e \in under
      <4>1. CASE e \in held
        <5>1. PICK line : line = Descent(leaf, t.map[e])
          OBVIOUS
        <5>2. Line(leaf, line)
          BY <1>5, <5>1, DescentLine
        <5>3. PICK h \in k..MaxDepth : LeafOf(split, line) = line[h] /\ line[h] \notin split
          <6>1. \A m \in split : Len(m) < MaxDepth
            BY <1>5 DEF Rooted
          <6> QED
            BY <1>5, <5>2, <6>1, LeafOfLine
        <5>4. last = line[h]
          BY <1>10, <3>4, <4>1, <5>1, <5>3 DEF HomeOf
        <5>5. last \in Range(line)
          BY <1>5, <5>2, <5>3, <5>4 DEF Range, Line
        <5> QED
          BY <1>3, <3>1, <4>1, <5>1, <5>5 DEF UnderOf
      <4>2. CASE e \notin held
        <5>1. t.leaves[e] = last
          BY <1>11, <3>4, <4>2
        <5>2. last # leaf
          BY <1>9, <4>2, <5>1
        <5>3. last \in LeavesOf(t.divided)
          BY <1>5, <1>12, <5>1, NoneApart
        <5> QED
          BY <1>5, <5>2, <5>3 DEF LeavesOf
      <4> QED
        BY <4>1, <4>2
    <3>5. u.points[last] \subseteq under \cup {d}
      BY <1>4, <1>5, <3>4, InsideIs
    <3>6. Cardinality(under \cup {d}) = Cardinality(under) + 1 /\ under \cup {d} \subseteq Drivers
      BY <3>3, OneMore
    <3>7. Fits(under \cup {d})
      BY <3>2, <3>3, <3>6, FitsIs, RoomIs DEF Fits
    <3> QED
      BY <3>5, <3>6, <3>7, FitsIs
  <2> QED
    BY <2>1, <2>2
\* The other leaves hold nothing new, or some of what the leaf held.
<1>16. ASSUME NEW n \in LeavesOf(split), n # last PROVE Fits(u.points[n]) \/ Len(n) = MaxDepth
  <2>1. n \in Nodes /\ n \notin split /\ Above(n) \subseteq split
    BY DEF LeavesOf
  <2>2. u.points[n] = {e \in Drivers : u.leaves[e] = n} /\ t.points[n] \subseteq Drivers
    BY <1>4, <2>1, InsideIs
  <2>3. n # leaf
    <3>1. ASSUME n = leaf PROVE FALSE
      <4>1. leaf \in Above(last)
        BY <1>5, <1>16, <3>1
      <4> QED
        BY <1>5, <2>1, <3>1, <4>1 DEF LeavesOf
    <3> QED
      BY <3>1
  <2>4. CASE leaf \in Above(n)
    <3>1. u.points[n] \subseteq held
      <4> SUFFICES ASSUME NEW e \in Drivers, u.leaves[e] = n, e \notin held PROVE FALSE
        BY <2>2
      <4>1. t.leaves[e] = n
        BY <1>11, <1>16
      <4>2. n \in LeavesOf(t.divided)
        BY <1>12, <2>1, <4>1, NoneApart
      <4> QED
        BY <1>5, <2>4, <4>2 DEF LeavesOf
    <3>2. Len(leaf) # MaxDepth
      BY <1>5, <2>1, <2>4, BelowAbove, Depth
    <3>3. Fits(held)
      BY <1>3, <1>5, <3>2 DEF Needed
    <3> QED
      BY <1>8, <3>1, <3>3, FitsIs
  <2>5. CASE leaf \notin Above(n)
    <3>1. u.points[n] \subseteq t.points[n]
      <4> SUFFICES ASSUME NEW e \in Drivers, u.leaves[e] = n PROVE t.leaves[e] = n
        BY <2>1, <2>2, InsideIs
      <4> QED
        BY <1>10, <1>11, <1>16, <2>3, <2>5
    <3>2. ASSUME NEW m \in Above(n) PROVE m \in t.divided
      <4> SUFFICES ASSUME m \notin t.divided PROVE FALSE
        OBVIOUS
      <4>1. m = leaf \/ leaf \in Above(m)
        BY <1>5, <2>1
      <4> QED
        BY <2>1, <2>5, <4>1, AboveAbove
    <3>3. n \in LeavesOf(t.divided)
      BY <1>5, <2>1, <3>2 DEF LeavesOf
    <3> QED
      BY <2>2, <3>1, <3>3, FitsIs DEF Needed
  <2> QED
    BY <2>4, <2>5
<1>17. \A n \in split : ~Fits(InsideOf(u, n))
  BY <1>3, <1>13, <1>14 DEF SplitOf
<1> QED
  BY <1>2, <1>6, <1>15, <1>16, <1>17 DEF Needed

LEMMA NeededRemoved ==
  ASSUME NEW t, Sound(t), Needed(t), NEW d \in Drivers, t.map[d] # None
  PROVE  Needed(Removed(t, d))
<1>1. PICK leaf, rest, tops :
            /\ leaf = t.leaves[d] /\ leaf \in LeavesOf(t.divided) /\ leaf \in Nodes
            /\ rest = Without(t, d) /\ tops = TopsOf(rest, leaf)
            /\ tops = {} => Removed(t, d) = rest
            /\ tops # {} => \E top \in tops : /\ tops \subseteq {top} \cup Below(top)
                                              /\ top \in rest.divided
                                              /\ Removed(t, d) = Gathered(rest, top)
  BY RemovedIs
<1>2. Sound(rest) /\ rest.divided = t.divided
  BY <1>1, SoundWithout, Zenon
<1>3. rest.leaves = [t.leaves EXCEPT ![d] = None]
  BY <1>1, SoundWithout, Zenon
<1>4. /\ t.divided \subseteq Nodes /\ Above(leaf) \subseteq t.divided
      /\ t.leaves \in [Drivers -> Nodes \cup {None}]
      /\ \A n \in Nodes : t.points[n] \subseteq Drivers
  BY <1>1 DEF Sound, Trees, LeavesOf
<1>5. \A e \in Drivers : /\ e # d => rest.leaves[e] = t.leaves[e]
                         /\ rest.leaves[d] = None
  BY <1>3, <1>4
<1>6. \A n \in LeavesOf(t.divided) : Fits(rest.points[n]) \/ Len(n) = MaxDepth
  <2> SUFFICES ASSUME NEW n \in LeavesOf(t.divided), Len(n) # MaxDepth PROVE Fits(rest.points[n])
    OBVIOUS
  <2>1. n \in Nodes /\ Fits(t.points[n])
    BY DEF Needed, LeavesOf
  <2>2. /\ t.points[n] = {e \in Drivers : t.leaves[e] = n}
        /\ rest.points[n] = {e \in Drivers : rest.leaves[e] = n}
    BY <1>2, <2>1, InsideIs
  <2>3. rest.points[n] \subseteq t.points[n] /\ t.points[n] \subseteq Drivers
    BY <1>5, <2>1, <2>2, NoneApart
  <2> QED
    BY <2>1, <2>3, FitsIs
\* A divided node that is not above the leaf loses nothing.
<1>7. ASSUME NEW n \in t.divided, n \notin Above(leaf) PROVE ~Fits(InsideOf(rest, n))
  <2>1. n \in Nodes /\ leaf \notin Below(n)
    BY <1>1, <1>4, <1>7, BelowAbove
  <2>2. \A e \in Drivers : t.leaves[e] \in Below(n) => rest.leaves[e] \in Below(n)
    BY <1>1, <1>5, <2>1
  <2>3. InsideOf(t, n) = {e \in Drivers : t.leaves[e] \in Below(n)}
    BY <2>1, InsideIs
  <2>4. InsideOf(rest, n) = {e \in Drivers : rest.leaves[e] \in Below(n)}
    BY <1>2, <2>1, InsideIs
  <2>5. InsideOf(t, n) \subseteq InsideOf(rest, n)
    BY <2>2, <2>3, <2>4
  <2> QED
    BY <2>4, <2>5, FitsIs DEF Needed
\* One above it that does not collapse has a reason.
<1>8. ASSUME NEW n \in t.divided, n \notin tops PROVE ~Fits(InsideOf(rest, n))
  <2> SUFFICES ASSUME n \in Above(leaf), Fits(InsideOf(rest, n)) PROVE FALSE
    BY <1>7
  <2>1. n \in Nodes
    BY <1>4
  <2>2. ~Collapses(rest, n, leaf)
    BY <1>1, <1>8 DEF TopsOf
  <2>3. PICK m \in rest.divided \cap Below(n) : m \notin Above(leaf)
    BY <2>2 DEF Collapses, Fits, InsideOf
  <2>4. m \in t.divided /\ m \in Nodes /\ n \in Above(m)
    BY <1>2, <1>4, <2>1, <2>3, BelowAbove
  <2>5. ~Fits(InsideOf(rest, m))
    BY <1>7, <2>3, <2>4
  <2>6. Below(m) \subseteq Below(n)
    <3> SUFFICES ASSUME NEW x \in Below(m) PROVE x \in Below(n)
      OBVIOUS
    <3>1. x \in Nodes /\ m \in Above(x)
      BY <2>4, BelowAbove
    <3>2. n \in Above(x)
      BY <2>4, <3>1, AboveAbove
    <3> QED
      BY <2>1, <3>1, <3>2, BelowAbove
  <2>7. InsideOf(rest, m) \subseteq InsideOf(rest, n) /\ InsideOf(rest, n) \subseteq Drivers
    BY <1>2, <2>1, <2>4, <2>6, InsideIs
  <2> QED
    BY <2>5, <2>7, FitsIs
<1>9. CASE tops = {}
  <2>1. Needed(rest)
    BY <1>2, <1>6, <1>8, <1>9 DEF Needed
  <2> QED
    BY <1>1, <1>9, <2>1
<1>10. CASE tops # {}
  <2>1. PICK top \in tops : /\ tops \subseteq {top} \cup Below(top)
                            /\ top \in rest.divided
                            /\ Removed(t, d) = Gathered(rest, top)
    BY <1>1, <1>10
  <2>2. PICK u : u = Gathered(rest, top)
    OBVIOUS
  <2>3. PICK all, split :
           all = InsideOf(rest, top) /\ split = rest.divided \ ({top} \cup Below(top))
    OBVIOUS
  <2>4. /\ top \in Nodes
        /\ all = {e \in Drivers : rest.leaves[e] \in Below(top)}
        /\ u = [divided |-> split,
                points |-> [n \in Nodes |->
                    IF n = top THEN all ELSE IF n \in Below(top) THEN {} ELSE rest.points[n]],
                map |-> rest.map,
                leaves |-> [e \in Drivers |-> IF e \in all THEN top ELSE rest.leaves[e]]]
    BY <1>2, <2>1, <2>2, <2>3, GatheredIs
  <2>5. Sound(u)
    BY <1>2, <2>1, <2>2, SoundGathered
  <2>6. Fits(all)
    BY <1>1, <2>1, <2>3 DEF TopsOf, Collapses, Fits, InsideOf
  <2>7. ASSUME NEW n \in LeavesOf(split) PROVE Fits(u.points[n]) \/ Len(n) = MaxDepth
    <3>1. n \in Nodes /\ n \notin split /\ Above(n) \subseteq split
      BY DEF LeavesOf
    <3>2. CASE n = top
      BY <2>4, <2>6, <3>1, <3>2
    <3>3. CASE n # top /\ n \in Below(top)
      BY <2>4, <3>1, <3>3, EmptyFits
    <3>4. CASE n # top /\ n \notin Below(top)
      <4>1. n \in LeavesOf(t.divided)
        BY <1>2, <2>3, <3>1, <3>4 DEF LeavesOf
      <4>2. u.points[n] = rest.points[n]
        BY <2>4, <3>1, <3>4
      <4> QED
        BY <1>6, <4>1, <4>2
    <3> QED
      BY <3>2, <3>3, <3>4
  <2>8. ASSUME NEW n \in split PROVE ~Fits(InsideOf(u, n))
    <3>1. n \in t.divided /\ n \in Nodes /\ n # top /\ n \notin Below(top)
      BY <1>2, <1>4, <2>3
    <3>2. ~Fits(InsideOf(rest, n))
      BY <1>8, <2>1, <3>1
    <3>3. ASSUME NEW e \in Drivers, rest.leaves[e] \in Below(n) PROVE u.leaves[e] \in Below(n)
      <4>1. CASE e \notin all
        BY <2>4, <3>3, <4>1
      <4>2. CASE e \in all
        <5>1. rest.leaves[e] \in Nodes /\ rest.leaves[e] \in Below(top) /\ u.leaves[e] = top
          BY <2>4, <3>1, <3>3, <4>2, BelowAbove
        <5>2. n \in Above(rest.leaves[e]) /\ top \in Above(rest.leaves[e])
          BY <2>4, <3>1, <3>3, <5>1, BelowAbove
        <5>3. n \in Above(top) \/ top \in Above(n)
          BY <3>1, <5>1, <5>2, OnePath
        <5> QED
          BY <2>4, <3>1, <5>1, <5>3, BelowAbove
      <4> QED
        BY <4>1, <4>2
    <3>4. InsideOf(rest, n) \subseteq InsideOf(u, n) /\ InsideOf(u, n) \subseteq Drivers
      BY <1>2, <2>5, <3>1, <3>3, InsideIs
    <3> QED
      BY <3>2, <3>4, FitsIs
  <2>9. Needed(u)
    BY <2>4, <2>7, <2>8 DEF Needed
  <2> QED
    BY <2>1, <2>2, <2>9
<1> QED
  BY <1>9, <1>10

LEMMA NeededPlaced ==
  ASSUME NEW t, Sound(t), Needed(t), NEW d \in Drivers, NEW p \in Sites
  PROVE  Needed(Placed(t, d, p))
<1>1. PICK w : w = IF t.map[d] = None THEN t ELSE Removed(t, d)
  OBVIOUS
<1>2. t.map \in [Drivers -> Sites \cup {None}]
  BY DEF Sound, Trees
<1>3. CASE t.map[d] = None
  <2>1. w = t
    BY <1>1, <1>3
  <2>2. CASE InBox(Bounds[Root], p)
    <3>1. Placed(t, d, p) = Inserted(t, d, p)
      BY <1>3, <2>2 DEF Placed
    <3> QED
      BY <1>3, <2>2, <3>1, NeededInserted
  <2>3. CASE ~InBox(Bounds[Root], p)
    <3>1. Placed(t, d, p) = t
      BY <1>3, <2>3 DEF Placed
    <3> QED
      BY <3>1
  <2> QED
    BY <2>2, <2>3
<1>4. CASE t.map[d] # None
  <2>1. Sound(w) /\ Needed(w) /\ w.map = [t.map EXCEPT ![d] = None]
    BY <1>1, <1>4, SoundRemoved, NeededRemoved
  <2>2. w.map[d] = None
    BY <1>2, <2>1
  <2>3. CASE InBox(Bounds[Root], p)
    <3>1. Placed(t, d, p) = Inserted(w, d, p)
      BY <1>1, <1>4, <2>3 DEF Placed
    <3> QED
      BY <2>1, <2>2, <2>3, <3>1, NeededInserted
  <2>4. CASE ~InBox(Bounds[Root], p)
    <3>1. Placed(t, d, p) = w
      BY <1>1, <1>4, <2>4 DEF Placed
    <3> QED
      BY <2>1, <3>1
  <2> QED
    BY <2>3, <2>4
<1> QED
  BY <1>3, <1>4

NeededTree == Needed(Tree)

LEMMA NeededBecomes ==
  ASSUME NEW u, Sound(u), Needed(u), Becomes(u)
  PROVE  NeededTree'
<1>1. u = [divided |-> u.divided, points |-> u.points, map |-> u.map, leaves |-> u.leaves]
  BY DEF Sound, Trees
<1>2. Tree' = u
  BY <1>1 DEF Becomes, Tree
<1> QED
  BY <1>2 DEF NeededTree

LEMMA InitNeededTree == Init => NeededTree
<1> SUFFICES ASSUME Init PROVE Needed(Tree)
  BY DEF NeededTree
<1>1. PICK t : t = Tree
  OBVIOUS
<1>2. t.divided = {} /\ t.points = [n \in Nodes |-> {}]
  BY <1>1 DEF Init, Tree
<1>3. Needed(t)
  BY <1>2, EmptyFits DEF Needed, LeavesOf
<1> QED
  BY <1>1, <1>3

LEMMA NextNeededTree ==
  ASSUME SoundTree, NeededTree, [Next]_vars
  PROVE  NeededTree'
<1>1. PICK t : t = Tree /\ t.map = driverMap
  BY TreeIs, Zenon
<1>2. Sound(t) /\ Needed(t)
  BY <1>1 DEF SoundTree, NeededTree
<1>3. CASE UNCHANGED <<divided, points>>
  <2>1. PICK u : u = Tree'
    OBVIOUS
  <2>2. /\ u.divided = divided /\ u.points = points
        /\ t.divided = divided /\ t.points = points
    BY <1>1, <1>3, <2>1 DEF Tree
  <2>3. Needed(u)
    <3>1. u.divided = t.divided /\ u.points = t.points
      BY <2>2
    <3>2. \A n : InsideOf(u, n) = InsideOf(t, n)
      BY <3>1 DEF InsideOf
    <3> QED
      BY <1>2, <3>1, <3>2, Zenon DEF Needed
  <2> QED
    BY <2>1, <2>3 DEF NeededTree
<1>4. ASSUME NEW d \in Drivers, RemoveDriver(d) PROVE NeededTree'
  <2>1. t.map[d] # None /\ Becomes(Removed(t, d))
    BY <1>1, <1>4 DEF RemoveDriver
  <2>2. Sound(Removed(t, d)) /\ Needed(Removed(t, d))
    BY <1>2, <2>1, SoundRemoved, NeededRemoved
  <2> QED
    BY <2>1, <2>2, NeededBecomes
<1>5. ASSUME NEW d \in Drivers, NEW p \in Sites, InsertDriver(d, p) PROVE NeededTree'
  <2>1. Becomes(Placed(t, d, p))
    BY <1>1, <1>5 DEF InsertDriver
  <2>2. Sound(Placed(t, d, p)) /\ Needed(Placed(t, d, p))
    BY <1>2, SoundPlaced, NeededPlaced
  <2> QED
    BY <2>1, <2>2, NeededBecomes
<1>6. ASSUME NEW d \in Drivers, NEW p \in Sites, UpdateAcross(d, p) PROVE NeededTree'
  <2>1. PICK w : w = Removed(t, d)
    OBVIOUS
  <2>2. t.map[d] # None /\ Becomes(Placed(w, d, p))
    BY <1>1, <1>6, <2>1 DEF UpdateAcross
  <2>3. Sound(w) /\ Needed(w)
    BY <1>2, <2>1, <2>2, SoundRemoved, NeededRemoved
  <2>4. Sound(Placed(w, d, p)) /\ Needed(Placed(w, d, p))
    BY <2>3, SoundPlaced, NeededPlaced
  <2> QED
    BY <2>2, <2>4, NeededBecomes
<1>7. ASSUME NEW d \in Drivers, NEW p \in Sites, UpdateInLeaf(d, p) PROVE NeededTree'
  BY <1>3, <1>7 DEF UpdateInLeaf
<1>8. CASE UNCHANGED vars
  BY <1>3, <1>8 DEF vars
<1> QED
  BY <1>4, <1>5, <1>6, <1>7, <1>8 DEF Next

\* The tree is as small as its points allow: a leaf over capacity is at the bottom, and
\* what is below a divided node would not fit into a leaf.
THEOREM SplitsAreNeededHolds == Spec => []SplitsAreNeeded
<1>1. Init => SoundTree /\ NeededTree
  BY InitSoundTree, InitNeededTree
<1>2. SoundTree /\ NeededTree /\ [Next]_vars => SoundTree' /\ NeededTree'
  BY StepIs, NextNeededTree
<1>3. ASSUME SoundTree, NeededTree PROVE SplitsAreNeeded
  <2>1. PICK t : t = Tree
    OBVIOUS
  <2>2. divided = t.divided /\ points = t.points
    BY <2>1 DEF Tree
  <2>3. Sound(t) /\ Needed(t)
    BY <1>3, <2>1 DEF SoundTree, NeededTree
  <2>4. Leaves = LeavesOf(t.divided)
    BY <2>2 DEF Leaves, LeavesOf
  <2>5. ASSUME NEW n \in Leaves, Cardinality(points[n]) > Capacity PROVE Len(n) = MaxDepth
    <3>1. n \in LeavesOf(t.divided) /\ n \in Nodes
      BY <2>4 DEF LeavesOf
    <3>2. points[n] \subseteq Drivers
      BY <2>2, <2>3, <3>1 DEF Sound, Trees
    <3> QED
      BY <2>2, <2>3, <2>5, <3>1, <3>2, FitsIs, RoomIs DEF Needed, Fits
  <2>6. ASSUME NEW n \in divided PROVE Cardinality(UNION {points[m] : m \in Below(n)}) > Capacity
    <3>1. n \in Nodes /\ InsideOf(t, n) = UNION {points[m] : m \in Below(n)}
      BY <2>2, <2>3 DEF Sound, Trees, InsideOf
    <3>2. InsideOf(t, n) \subseteq Drivers
      BY <2>3, <3>1, InsideIs
    <3>3. ~Fits(InsideOf(t, n))
      BY <2>2, <2>3 DEF Needed
    <3> QED
      BY <3>1, <3>2, <3>3, FitsIs, RoomIs DEF Fits
  <2> QED
    BY <2>5, <2>6 DEF SplitsAreNeeded
<1> QED
  BY <1>1, <1>2, <1>3, PTL DEF Spec

-----------------------------------------------------------------------------
(* Loops *)

\* g gives the states of a loop that starts in base, and whose n-th turn is f[n].
Looped(g, N, base, f) == g = [n \in 0..N |-> IF n = 0 THEN base ELSE f[n][g[n - 1]]]

\* A loop of N turns, each a function of the state, can be run.
LEMMA LoopRuns ==
  ASSUME NEW N \in Nat, NEW S, NEW base \in S, NEW f \in [1..N -> [S -> S]]
  PROVE  \E g \in [0..N -> S] : Looped(g, N, base, f)
<1> DEFINE Turn(g, n) == IF n = 0 THEN base ELSE f[n][g[n - 1]]
           Good(g, k) == \A n \in 0..N : n <= k => g[n] = Turn(g, n) /\ g[n] \in S
           D == {k \in 0..N : \E g : g = [n \in 0..N |-> g[n]] /\ Good(g, k)}
<1>1. ASSUME NEW k \in 0..N, \A j \in 0..(k - 1) : j \in D
      PROVE  k \in D
  <2>1. \E g : k > 0 => Good(g, k - 1)
    <3>1. CASE k = 0
      BY <3>1
    <3>2. CASE k > 0
      <4>1. k - 1 \in D
        BY <1>1, <3>2
      <4> QED
        BY <4>1
    <3> QED
      BY <3>1, <3>2
  <2>2. PICK g : k > 0 => Good(g, k - 1)
    BY <2>1
  <2> DEFINE h == [n \in 0..N |-> Turn(g, n)]
  <2>3. ASSUME NEW n \in 0..N, n <= k PROVE h[n] = Turn(h, n) /\ h[n] \in S
    <3>1. CASE n = 0
      BY <3>1
    <3>2. CASE n # 0
      <4>1. n - 1 \in 0..N /\ n - 1 <= k - 1 /\ k > 0 /\ n \in 1..N
        BY <2>3, <3>2
      <4>2. g[n - 1] = Turn(g, n - 1) /\ g[n - 1] \in S
        BY <2>2, <4>1
      <4>3. h[n - 1] = g[n - 1]
        BY <4>1, <4>2
      <4>4. h[n] = f[n][g[n - 1]] /\ f[n] \in [S -> S]
        BY <3>2, <4>1
      <4> QED
        BY <3>2, <4>2, <4>3, <4>4
    <3> QED
      BY <3>1, <3>2
  <2>4. h = [n \in 0..N |-> h[n]]
    OBVIOUS
  <2> QED
    BY <2>3, <2>4
<1> HIDE DEF D
<1>2. 0..N \subseteq D
  BY <1>1, UpTo
<1>3. N \in D
  BY <1>2
<1>4. PICK g : g = [n \in 0..N |-> g[n]] /\ Good(g, N)
  BY <1>3 DEF D
<1>5. \A n \in 0..N : g[n] = Turn(g, n) /\ g[n] \in S
  <2>1. \A n \in 0..N : n <= N
    OBVIOUS
  <2>2. Good(g, N)
    BY <1>4
  <2> QED
    BY <2>1, <2>2
<1>6. g = [n \in 0..N |-> Turn(g, n)] /\ g \in [0..N -> S]
  BY <1>4, <1>5
<1> QED
  BY <1>6 DEF Looped

\* What holds before a loop and is carried from turn to turn holds after every turn.
LEMMA LoopKeeps ==
  ASSUME NEW N \in Nat, NEW run, NEW J,
         run[0] \in J[0], \A n \in 1..N : run[n - 1] \in J[n - 1] => run[n] \in J[n]
  PROVE  \A n \in 0..N : run[n] \in J[n]
<1> DEFINE D == {n \in 0..N : run[n] \in J[n]}
<1>1. ASSUME NEW k \in 0..N, \A j \in 0..(k - 1) : j \in D
      PROVE  k \in D
  <2>1. CASE k = 0
    BY <2>1
  <2>2. CASE k > 0
    <3>1. k - 1 \in 0..(k - 1) /\ k \in 1..N
      BY <2>2
    <3>2. k - 1 \in D
      BY <1>1, <3>1
    <3> QED
      BY <3>1, <3>2
  <2> QED
    BY <2>1, <2>2
<1> HIDE DEF D
<1>2. 0..N \subseteq D
  BY <1>1, UpTo
<1> QED
  BY <1>2 DEF D

-----------------------------------------------------------------------------
(* The priority queue *)

\* Entries of a queue have distances.
Queued(E) == \A e \in E : e.minDist \in Int

OrderedAt(h, j) == h[j \div 2].minDist <= h[j].minDist
Ordered(h) == \A j \in 2..Len(h) : OrderedAt(h, j)
Distinct(h) == \A i, j \in 1..Len(h) : h[i] = h[j] => i = j

\* The same entries in another order.
Shuffled(g, h) ==
    /\ Len(h) = Len(g)
    /\ Range(h) = Range(g)
    /\ Distinct(g) => Distinct(h)

\* g is h with the entries i and j exchanged.
Swapped(E, h, i, j, g) ==
    /\ g \in Seq(E) /\ Len(g) = Len(h) /\ g[i] = h[j] /\ g[j] = h[i]
    /\ \A n \in 1..Len(h) : n # i /\ n # j => g[n] = h[n]
    /\ Shuffled(h, g)

LEMMA SwapIs ==
  ASSUME NEW E, NEW h \in Seq(E), NEW i \in 1..Len(h), NEW j \in 1..Len(h)
  PROVE  Swapped(E, h, i, j, Heap!Swap(h, i, j))
<1> DEFINE g == Heap!Swap(h, i, j)
<1>1. /\ g \in Seq(E) /\ Len(g) = Len(h) /\ g[i] = h[j] /\ g[j] = h[i]
      /\ \A n \in 1..Len(h) : n # i /\ n # j => g[n] = h[n]
  BY DEF Heap!Swap
<1> HIDE DEF g
<1>2. DOMAIN g = 1..Len(h) /\ DOMAIN h = 1..Len(h)
  BY <1>1
<1>3. ASSUME NEW n \in 1..Len(h) PROVE h[n] \in Range(g) /\ g[n] \in Range(h)
  <2>1. \E m \in 1..Len(h) : h[n] = g[m]
    BY <1>1
  <2>2. \E m \in 1..Len(h) : g[n] = h[m]
    BY <1>1
  <2> QED
    BY <1>2, <2>1, <2>2 DEF Range
<1>4. Range(g) = Range(h)
  BY <1>2, <1>3 DEF Range
<1>5. Distinct(h) => Distinct(g)
  BY <1>1 DEF Distinct
<1> QED
  BY <1>1, <1>4, <1>5 DEF g, Shuffled, Swapped

LEMMA ShuffledTwice ==
  ASSUME NEW f, NEW g, NEW h, Shuffled(f, g), Shuffled(g, h)
  PROVE  Shuffled(f, h)
BY DEF Shuffled

\* An entry rises: it alone may be less than its parent.
Rising(E, h) ==
    {s \in [heap : Seq(E), at : Nat] :
        /\ s.at \in 1..Len(h)
        /\ Shuffled(h, s.heap)
        /\ \A j \in 2..Len(h) : j # s.at => OrderedAt(s.heap, j)
        /\ \A j \in 2..Len(h) : j \div 2 = s.at /\ s.at > 1 =>
                s.heap[s.at \div 2].minDist <= s.heap[j].minDist}

Risen(s) == s.at = 1 \/ ~(s.heap[s.at].minDist < s.heap[s.at \div 2].minDist)

LEMMA RiseIs ==
  ASSUME NEW E, Queued(E), NEW h \in Seq(E), NEW s \in Rising(E, h)
  PROVE  /\ Heap!Rise(s) \in Rising(E, h)
         /\ Risen(s) => Heap!Rise(s) = s /\ Ordered(s.heap)
         /\ ~Risen(s) => Heap!Rise(s).at < s.at
<1> DEFINE a == s.at
           p == s.at \div 2
           g == s.heap
           f == Heap!Swap(s.heap, s.at, s.at \div 2)
<1>1. /\ g \in Seq(E) /\ a \in 1..Len(h) /\ Shuffled(h, g) /\ Len(g) = Len(h)
      /\ s = [heap |-> g, at |-> a]
      /\ \A j \in 2..Len(h) : j # a => OrderedAt(g, j)
      /\ \A j \in 2..Len(h) : j \div 2 = a /\ a > 1 => g[p].minDist <= g[j].minDist
  BY DEF Rising, Shuffled
<1>2. Heap!Rise(s) = IF Risen(s) THEN s ELSE [heap |-> f, at |-> p]
  BY DEF Heap!Rise, Closer, Risen
<1>3. CASE Risen(s)
  <2>1. Ordered(g)
    <3> SUFFICES ASSUME NEW j \in 2..Len(h) PROVE OrderedAt(g, j)
      BY <1>1 DEF Ordered
    <3>1. CASE j # a
      BY <1>1, <3>1
    <3>2. CASE j = a
      <4>1. j \div 2 \in 1..Len(h) /\ j \in 1..Len(h)
        BY <1>1
      <4>2. g[j].minDist \in Int /\ g[j \div 2].minDist \in Int
        BY <1>1, <4>1 DEF Queued
      <4> QED
        BY <1>3, <3>2, <4>2 DEF Risen, OrderedAt
    <3> QED
      BY <3>1, <3>2
  <2> QED
    BY <1>2, <1>3, <2>1
<1>4. CASE ~Risen(s)
  <2>1. a > 1 /\ g[a].minDist < g[p].minDist
    BY <1>1, <1>4 DEF Risen
  <2>2. p \in 1..Len(h) /\ p < a /\ a \in 2..Len(h) /\ 2 * p <= a /\ a <= 2 * p + 1
    BY <1>1, <2>1
  <2>3. /\ f \in Seq(E) /\ Len(f) = Len(h) /\ Shuffled(g, f)
        /\ f[a] = g[p] /\ f[p] = g[a]
        /\ \A n \in 1..Len(h) : n # a /\ n # p => f[n] = g[n]
    <3>1. PICK u, v, w : u = g /\ v = a /\ w = p
      OBVIOUS
    <3>2. u \in Seq(E) /\ v \in 1..Len(u) /\ w \in 1..Len(u) /\ Len(u) = Len(h)
      BY <1>1, <2>2, <3>1
    <3>3. Swapped(E, u, v, w, Heap!Swap(u, v, w))
      BY <3>2, SwapIs
    <3>4. PICK t : t = Heap!Swap(u, v, w)
      OBVIOUS
    <3>5. t = f
      BY <3>1, <3>4
    <3>6. Swapped(E, u, v, w, t)
      BY <3>3, <3>4
    <3> QED
      BY <3>1, <3>2, <3>5, <3>6 DEF Swapped
  <2> HIDE DEF f, g, a, p
  <2>4. Shuffled(h, f)
    BY <1>1, <2>3, ShuffledTwice
  <2>5. \A n \in 1..Len(h) : g[n].minDist \in Int
    BY <1>1 DEF Queued
  <2>6. ASSUME NEW j \in 2..Len(h), j # p PROVE OrderedAt(f, j)
    <3> DEFINE r == j \div 2
    <3>1. r \in 1..Len(h) /\ r < j /\ j \in 1..Len(h)
      OBVIOUS
    <3>2. CASE j = a
      <4>1. r = p
        BY <3>2 DEF p, a
      <4> QED
        BY <2>1, <2>2, <2>3, <2>5, <3>1, <3>2, <4>1 DEF OrderedAt
    <3>3. CASE j # a /\ r = a
      <4>1. g[p].minDist <= g[j].minDist
        BY <1>1, <2>1, <3>3
      <4> QED
        BY <2>3, <2>6, <3>1, <3>3, <4>1 DEF OrderedAt
    <3>4. CASE j # a /\ r = p
      <4>1. g[p].minDist <= g[j].minDist
        BY <1>1, <3>4 DEF OrderedAt
      <4>2. f[r] = g[a] /\ f[j] = g[j]
        BY <2>3, <2>6, <3>1, <3>4
      <4>3. g[a].minDist <= g[j].minDist
        BY <2>1, <2>2, <2>5, <3>1, <4>1
      <4> QED
        BY <4>2, <4>3 DEF OrderedAt
    <3>5. CASE j # a /\ r # a /\ r # p
      <4>1. OrderedAt(g, j)
        BY <1>1, <3>5
      <4> QED
        BY <2>3, <2>6, <3>1, <3>5, <4>1 DEF OrderedAt
    <3> QED
      BY <3>2, <3>3, <3>4, <3>5
  <2>7. ASSUME NEW j \in 2..Len(h), j \div 2 = p, p > 1
        PROVE  f[p \div 2].minDist <= f[j].minDist
    <3>1. p \div 2 \in 1..Len(h) /\ p \div 2 < p /\ j \in 1..Len(h) /\ p \in 2..Len(h) /\ p < j
      BY <2>2, <2>7
    <3>2. g[p \div 2].minDist <= g[p].minDist
      BY <1>1, <2>2, <3>1 DEF OrderedAt
    <3>3. f[p \div 2] = g[p \div 2]
      BY <2>2, <2>3, <3>1
    <3>4. CASE j = a
      BY <2>3, <3>2, <3>3, <3>4
    <3>5. CASE j # a
      <4>1. g[p].minDist <= g[j].minDist
        BY <1>1, <2>7, <3>5 DEF OrderedAt
      <4>2. f[j] = g[j]
        BY <2>3, <3>1, <3>5
      <4> QED
        BY <2>2, <2>5, <3>1, <3>2, <3>3, <4>1, <4>2
    <3> QED
      BY <3>4, <3>5
  <2>8. [heap |-> f, at |-> p] \in Rising(E, h)
    <3> DEFINE z == [heap |-> f, at |-> p]
    <3>1. z.heap = f /\ z.at = p /\ z \in [heap : Seq(E), at : Nat]
      BY <2>2, <2>3
    <3> HIDE DEF z
    <3>2. z \in Rising(E, h)
      BY <2>2, <2>4, <2>6, <2>7, <3>1 DEF Rising
    <3> QED
      BY <3>2 DEF z
  <2>9. Heap!Rise(s) = [heap |-> f, at |-> p]
    BY <1>2, <1>4
  <2> QED
    BY <1>4, <2>2, <2>8, <2>9 DEF a
<1> QED
  BY <1>3, <1>4

\* The turns of bubbleUp until its end.
LEMMA BubbleUpIs ==
  ASSUME NEW E, Queued(E), NEW h \in Seq(E), Len(h) > 0,
         \A j \in 2..Len(h) : j # Len(h) => OrderedAt(h, j)
  PROVE  LET g == Heap!BubbleUp(h, Len(h))
         IN  g \in Seq(E) /\ Shuffled(h, g) /\ Ordered(g)
<1> DEFINE N == Len(h)
           S == Rising(E, h)
           base == [heap |-> h, at |-> N]
           f == [n \in 1..N |-> [s \in S |-> Heap!Rise(s)]]
           J == [n \in 0..N |-> {s \in S : Risen(s) \/ s.at <= N - n}]
<1>1. N \in Nat /\ N >= 1
  OBVIOUS
<1>2. base \in S
  <2>1. base \in [heap : Seq(E), at : Nat] /\ base.heap = h /\ base.at = N
    OBVIOUS
  <2> HIDE DEF base
  <2>2. Shuffled(h, h)
    BY DEF Shuffled
  <2>3. \A j \in 2..N : ~(j \div 2 = N)
    BY <1>1
  <2> QED
    BY <1>1, <2>1, <2>2, <2>3 DEF Rising
<1>3. f \in [1..N -> [S -> S]]
  BY RiseIs
<1> HIDE DEF S
<1>4. PICK g \in [0..N -> S] : Looped(g, N, base, f)
  <2> HIDE DEF f, base, N, J
  <2> QED
    BY <1>1, <1>2, <1>3, LoopRuns
<1>5. g = [n \in 0..N |-> IF n = 0 THEN base ELSE Heap!Rise(g[n - 1])]
  <2>1. ASSUME NEW n \in 0..N, n # 0 PROVE f[n][g[n - 1]] = Heap!Rise(g[n - 1])
    <3>1. n \in 1..N /\ n - 1 \in 0..N
      BY <2>1
    <3> QED
      BY <1>4, <3>1
  <2> QED
    BY <1>4, <2>1 DEF Looped
<1>6. PICK run : /\ run = [n \in 0..N |-> IF n = 0 THEN base ELSE Heap!Rise(run[n - 1])]
                 /\ Heap!BubbleUp(h, Len(h)) = run[N].heap
  BY <1>5 DEF Heap!BubbleUp
<1> HIDE DEF N, base, f
<1>7. run[0] \in J[0]
  <2>1. run[0] = base
    BY <1>1, <1>6
  <2> QED
    BY <1>1, <1>2, <2>1 DEF base
<1>8. ASSUME NEW n \in 1..N, run[n - 1] \in J[n - 1]
      PROVE  run[n] \in J[n]
  <2>1. n - 1 \in 0..N /\ n \in 0..N /\ n # 0
    BY <1>1
  <2>2. run[n] = Heap!Rise(run[n - 1])
    BY <1>6, <2>1
  <2>3. PICK s \in S : s = run[n - 1] /\ (Risen(s) \/ s.at <= N - (n - 1))
    BY <1>8, <2>1
  <2>4. /\ Heap!Rise(s) \in S /\ s.at \in Int /\ Heap!Rise(s).at \in Int
        /\ Risen(s) => Heap!Rise(s) = s
        /\ ~Risen(s) => Heap!Rise(s).at < s.at
    <3>1. \A z \in S : z.at \in Int
      BY DEF S, Rising
    <3> QED
      BY <2>3, <3>1, RiseIs DEF S
  <2> QED
    BY <1>1, <2>1, <2>2, <2>3, <2>4
<1> HIDE DEF J
<1>9. \A n \in 0..N : run[n] \in J[n]
  BY <1>1, <1>7, <1>8, LoopKeeps
<1>10. PICK s \in S : s = run[N] /\ (Risen(s) \/ s.at <= N - N)
  BY <1>1, <1>9 DEF J
<1>11. s.at \in Int /\ s.at >= 1 /\ s.heap \in Seq(E) /\ Shuffled(h, s.heap)
  BY <1>10 DEF S, Rising
<1>12. Risen(s)
  BY <1>1, <1>10, <1>11
<1>13. Ordered(s.heap)
  BY <1>10, <1>12, RiseIs DEF S
<1> QED
  BY <1>6, <1>10, <1>11, <1>13

LEMMA PushIs ==
  ASSUME NEW E, Queued(E), NEW h \in Seq(E), Ordered(h), Distinct(h),
         NEW x \in E, x \notin Range(h)
  PROVE  LET g == Heap!Push(h, x)
         IN  g \in Seq(E) /\ Ordered(g) /\ Distinct(g) /\ Range(g) = Range(h) \cup {x}
<1> DEFINE f == Append(h, x)
           g == Heap!Push(h, x)
<1>1. /\ f \in Seq(E) /\ Len(f) = Len(h) + 1 /\ f[Len(f)] = x
      /\ \A i \in 1..Len(h) : f[i] = h[i]
  OBVIOUS
<1>2. g = Heap!BubbleUp(f, Len(f))
  BY <1>1 DEF Heap!Push
<1> HIDE DEF f, g
<1>3. Len(h) \in Nat /\ Len(f) > 0
  BY <1>1
<1>4. ASSUME NEW j \in 2..Len(f), j # Len(f) PROVE OrderedAt(f, j)
  <2>1. j \in 2..Len(h) /\ j \in 1..Len(h) /\ j \div 2 \in 1..Len(h)
    BY <1>1, <1>3, <1>4
  <2> QED
    BY <1>1, <2>1 DEF Ordered, OrderedAt
<1>5. DOMAIN f = 1..(Len(h) + 1) /\ DOMAIN h = 1..Len(h)
  BY <1>1
<1>6. Range(f) = Range(h) \cup {x}
  <2>1. \A i \in 1..Len(h) : f[i] \in Range(h) /\ h[i] \in Range(f)
    BY <1>1, <1>3, <1>5 DEF Range
  <2>2. x \in Range(f)
    BY <1>1, <1>3, <1>5 DEF Range
  <2>3. \A i \in 1..(Len(h) + 1) : i \in 1..Len(h) \/ f[i] = x
    BY <1>1, <1>3
  <2> QED
    BY <1>5, <2>1, <2>2, <2>3 DEF Range
<1>7. Distinct(f)
  <2>1. \A i \in 1..Len(h) : f[i] # x
    BY <1>1, <1>5 DEF Range
  <2>2. \A i \in 1..Len(f) : i \in 1..Len(h) \/ i = Len(f)
    BY <1>1, <1>3
  <2> QED
    BY <1>1, <2>1, <2>2 DEF Distinct
<1>8. g \in Seq(E) /\ Shuffled(f, g) /\ Ordered(g)
  BY <1>1, <1>2, <1>3, <1>4, BubbleUpIs
<1> QED
  BY <1>6, <1>7, <1>8 DEF g, Shuffled

\* An entry sinks: it alone may be greater than its children.
Sinking(E, h) ==
    {s \in [heap : Seq(E), at : Nat] :
        /\ s.at \in 1..Len(h)
        /\ Shuffled(h, s.heap)
        /\ \A j \in 2..Len(h) : j \div 2 # s.at => OrderedAt(s.heap, j)
        /\ \A j \in 2..Len(h) : j \div 2 = s.at /\ s.at > 1 =>
                s.heap[s.at \div 2].minDist <= s.heap[j].minDist}

Sunk(s) == Heap!Smallest(s.heap, s.at) = s.at

LEMMA SmallestIs ==
  ASSUME NEW E, Queued(E), NEW h \in Seq(E), NEW i \in 1..Len(h)
  PROVE  LET m == Heap!Smallest(h, i)
         IN  /\ m \in {i, 2 * i, 2 * i + 1} /\ m \in 1..Len(h)
             /\ m # i => h[m].minDist < h[i].minDist
             /\ \A j \in 1..Len(h) : j \in {2 * i, 2 * i + 1} => h[m].minDist <= h[j].minDist
<1> DEFINE l == IF 2 * i <= Len(h) /\ h[2 * i].minDist < h[i].minDist THEN 2 * i ELSE i
           m == IF 2 * i + 1 <= Len(h) /\ h[2 * i + 1].minDist < h[l].minDist THEN 2 * i + 1 ELSE l
<1>1. Heap!Smallest(h, i) = m
  BY DEF Heap!Smallest, Closer
<1>2. \A j \in 1..Len(h) : h[j].minDist \in Int
  BY DEF Queued
<1>3. Len(h) \in Nat /\ i \in Nat /\ i >= 1 /\ i <= Len(h)
  OBVIOUS
<1>4. /\ l \in {i, 2 * i} /\ l \in 1..Len(h)
      /\ l # i => h[l].minDist < h[i].minDist
      /\ h[l].minDist <= h[i].minDist
      /\ 2 * i \in 1..Len(h) => h[l].minDist <= h[2 * i].minDist
  BY <1>2, <1>3
<1> HIDE DEF l
<1>5. /\ m \in {i, 2 * i, 2 * i + 1} /\ m \in 1..Len(h)
      /\ m # i => h[m].minDist < h[i].minDist
      /\ h[m].minDist <= h[l].minDist
      /\ 2 * i + 1 \in 1..Len(h) => h[m].minDist <= h[2 * i + 1].minDist
  <2>1. PICK r, x, y : r = 2 * i + 1 /\ x = h[l].minDist /\ y = h[i].minDist
    OBVIOUS
  <2>2. /\ l \in 1..Len(h) /\ l \in {i, 2 * i} /\ x \in Int /\ y \in Int /\ x <= y
        /\ (l # i => x < y)
    BY <1>2, <1>3, <1>4, <2>1
  <2>3. r \in Nat /\ r > i /\ r > 2 * i
    BY <1>3, <2>1
  <2>4. CASE r <= Len(h) /\ h[r].minDist < x
    <3>1. m = r
      BY <2>1, <2>4
    <3>2. r \in 1..Len(h)
      BY <1>3, <2>3, <2>4
    <3>3. h[r].minDist \in Int
      BY <1>2, <3>2
    <3>4. h[r].minDist < y /\ h[r].minDist <= x
      BY <2>2, <2>4, <3>3
    <3> HIDE DEF m
    <3> QED
      BY <2>1, <3>1, <3>2, <3>3, <3>4
  <2>5. CASE ~(r <= Len(h) /\ h[r].minDist < x)
    <3>1. m = l
      BY <2>1, <2>5
    <3>2. ASSUME r \in 1..Len(h) PROVE x <= h[r].minDist
      <4>1. h[r].minDist \in Int /\ r <= Len(h)
        BY <1>2, <1>3, <3>2
      <4> QED
        BY <2>2, <2>5, <4>1
    <3> HIDE DEF m
    <3> QED
      BY <2>1, <2>2, <3>1, <3>2
  <2> QED
    BY <2>1, <2>4, <2>5
<1> HIDE DEF m
<1>6. ASSUME NEW j \in 1..Len(h), j \in {2 * i, 2 * i + 1} PROVE h[m].minDist <= h[j].minDist
  <2>1. CASE j = 2 * i
    <3>1. h[m].minDist <= h[l].minDist /\ h[l].minDist <= h[j].minDist
      BY <1>4, <1>5, <1>6, <2>1
    <3>2. PICK x, y, z : x = h[m].minDist /\ y = h[l].minDist /\ z = h[j].minDist
      OBVIOUS
    <3>3. x \in Int /\ y \in Int /\ z \in Int
      BY <1>2, <1>4, <1>5, <1>6, <3>2
    <3>4. x <= y /\ y <= z
      BY <3>1, <3>2
    <3>5. x <= z
      BY <3>3, <3>4
    <3> QED
      BY <3>2, <3>5
  <2>2. CASE j = 2 * i + 1
    BY <1>5, <1>6, <2>2
  <2> QED
    BY <1>6, <2>1, <2>2
<1> QED
  BY <1>1, <1>5, <1>6

LEMMA SinkIs ==
  ASSUME NEW E, Queued(E), NEW h \in Seq(E), NEW s \in Sinking(E, h)
  PROVE  /\ Heap!Sink(s) \in Sinking(E, h)
         /\ Sunk(s) => Heap!Sink(s) = s /\ Ordered(s.heap)
         /\ ~Sunk(s) => Heap!Sink(s).at > s.at
<1>1. PICK g, a, m : g = s.heap /\ a = s.at /\ m = Heap!Smallest(g, a)
  OBVIOUS
<1>2. /\ g \in Seq(E) /\ a \in 1..Len(h) /\ Shuffled(h, g) /\ Len(g) = Len(h)
      /\ s = [heap |-> g, at |-> a]
      /\ \A j \in 2..Len(h) : j \div 2 # a => OrderedAt(g, j)
      /\ \A j \in 2..Len(h) : j \div 2 = a /\ a > 1 => g[a \div 2].minDist <= g[j].minDist
  BY <1>1 DEF Sinking, Shuffled
<1>3. /\ m \in {a, 2 * a, 2 * a + 1} /\ m \in 1..Len(h)
      /\ m # a => g[m].minDist < g[a].minDist
      /\ \A j \in 1..Len(h) : j \in {2 * a, 2 * a + 1} => g[m].minDist <= g[j].minDist
  <2>1. a \in 1..Len(g)
    BY <1>2
  <2> QED
    BY <1>1, <1>2, <2>1, SmallestIs
<1>4. PICK f : f = Heap!Swap(g, a, m)
  OBVIOUS
<1>5. /\ f \in Seq(E) /\ Len(f) = Len(g) /\ f[a] = g[m] /\ f[m] = g[a]
      /\ \A n \in 1..Len(g) : n # a /\ n # m => f[n] = g[n]
      /\ Shuffled(g, f)
  <2>1. g \in Seq(E) /\ a \in 1..Len(g) /\ m \in 1..Len(g)
    BY <1>2, <1>3
  <2>2. Swapped(E, g, a, m, Heap!Swap(g, a, m))
    BY <2>1, SwapIs
  <2>3. Swapped(E, g, a, m, f)
    BY <1>4, <2>2
  <2> QED
    BY <2>3 DEF Swapped
<1>6. Heap!Sink(s) = [heap |-> f, at |-> m]
  BY <1>1, <1>4 DEF Heap!Sink
<1>7. \A n \in 1..Len(h) : g[n].minDist \in Int
  BY <1>2 DEF Queued
<1>8. ASSUME NEW j \in 2..Len(h)
      PROVE  /\ j \in 1..Len(h) /\ j \div 2 \in 1..Len(h) /\ j \div 2 < j
             /\ (j \div 2 = a => j \in {2 * a, 2 * a + 1})
  <2>1. Len(h) \in Nat /\ a \in Nat
    BY <1>2
  <2>2. j \in Nat /\ j >= 2 /\ j <= Len(h)
    BY <2>1
  <2> QED
    BY <2>1, <2>2
<1>9. CASE m = a
  <2>1. f = g
    BY <1>2, <1>4, <1>9 DEF Heap!Swap
  <2>2. Heap!Sink(s) = s
    BY <1>2, <1>6, <1>9, <2>1
  <2>3. Ordered(g)
    <3> SUFFICES ASSUME NEW j \in 2..Len(h) PROVE OrderedAt(g, j)
      BY <1>2 DEF Ordered
    <3>1. CASE j \div 2 # a
      BY <1>2, <3>1
    <3>2. CASE j \div 2 = a
      BY <1>3, <1>8, <1>9, <3>2 DEF OrderedAt
    <3> QED
      BY <3>1, <3>2
  <2> QED
    BY <1>1, <1>9, <2>2, <2>3 DEF Sunk
<1>10. CASE m # a
  <2>1. m \in 2..Len(h) /\ m \div 2 = a /\ m > a
    BY <1>2, <1>3, <1>10
  <2>2. Shuffled(h, f)
    BY <1>2, <1>5, ShuffledTwice
  <2>3. ASSUME NEW j \in 2..Len(h), j \div 2 # m PROVE OrderedAt(f, j)
    <3>1. PICK r : r = j \div 2
      OBVIOUS
    <3>2. r \in 1..Len(h) /\ r < j /\ j \in 1..Len(h) /\ r # m
      BY <1>8, <2>3, <3>1
    <3>3. CASE r = a
      <4>1. g[m].minDist <= g[j].minDist
        BY <1>3, <1>8, <3>1, <3>3
      <4>2. CASE j = m
        <5>1. f[r] = g[m] /\ f[j] = g[a]
          BY <1>5, <3>3, <4>2
        <5> QED
          BY <1>3, <1>7, <1>10, <1>2, <3>1, <5>1 DEF OrderedAt
      <4>3. CASE j # m
        <5>1. f[r] = g[m] /\ f[j] = g[j]
          BY <1>2, <1>5, <3>2, <3>3, <4>3
        <5> QED
          BY <3>1, <4>1, <5>1 DEF OrderedAt
      <4> QED
        BY <4>2, <4>3
    <3>4. CASE r # a /\ j = a
      <4>1. a > 1 /\ g[a \div 2].minDist <= g[m].minDist
        BY <1>2, <2>1, <3>4
      <4>2. f[j] = g[m] /\ f[r] = g[r]
        BY <1>2, <1>5, <3>2, <3>4
      <4> QED
        BY <3>1, <3>4, <4>1, <4>2 DEF OrderedAt
    <3>5. CASE r # a /\ j # a
      <4>1. j # m
        BY <2>1, <3>1, <3>5
      <4>2. f[j] = g[j] /\ f[r] = g[r]
        BY <1>2, <1>5, <3>2, <3>5, <4>1
      <4>3. OrderedAt(g, j)
        BY <1>2, <3>1, <3>5
      <4> QED
        BY <3>1, <4>2, <4>3 DEF OrderedAt
    <3> QED
      BY <3>3, <3>4, <3>5
  <2>4. ASSUME NEW j \in 2..Len(h), j \div 2 = m PROVE f[m \div 2].minDist <= f[j].minDist
    <3>1. f[m \div 2] = g[m]
      BY <1>5, <2>1
    <3>2. j # a /\ j # m /\ j \in 1..Len(h)
      BY <1>8, <2>1, <2>4
    <3>3. f[j] = g[j]
      BY <1>2, <1>5, <3>2
    <3>4. OrderedAt(g, j)
      BY <1>2, <1>10, <2>4
    <3> QED
      BY <2>4, <3>1, <3>3, <3>4 DEF OrderedAt
  <2>5. [heap |-> f, at |-> m] \in Sinking(E, h)
    <3> DEFINE z == [heap |-> f, at |-> m]
    <3>1. z.heap = f /\ z.at = m /\ z \in [heap : Seq(E), at : Nat]
      BY <1>3, <1>5
    <3> HIDE DEF z
    <3>2. z \in Sinking(E, h)
      BY <1>3, <2>2, <2>3, <2>4, <3>1 DEF Sinking
    <3> QED
      BY <3>2 DEF z
  <2> QED
    BY <1>1, <1>6, <1>10, <2>1, <2>5 DEF Sunk
<1> QED
  BY <1>9, <1>10

LEMMA BubbleDownIs ==
  ASSUME NEW E, Queued(E), NEW h \in Seq(E), Len(h) > 0,
         \A j \in 2..Len(h) : j \div 2 # 1 => OrderedAt(h, j)
  PROVE  LET g == Heap!BubbleDown(h, 1)
         IN  g \in Seq(E) /\ Shuffled(h, g) /\ Ordered(g)
<1> DEFINE N == Len(h)
           S == Sinking(E, h)
           base == [heap |-> h, at |-> 1]
           f == [n \in 1..N |-> [s \in S |-> Heap!Sink(s)]]
           J == [n \in 0..N |-> {s \in S : Sunk(s) \/ s.at > n}]
<1>1. N \in Nat /\ N >= 1
  OBVIOUS
<1>2. base \in S
  <2>1. base \in [heap : Seq(E), at : Nat] /\ base.heap = h /\ base.at = 1
    OBVIOUS
  <2> HIDE DEF base
  <2>2. Shuffled(h, h)
    BY DEF Shuffled
  <2> QED
    BY <1>1, <2>1, <2>2 DEF Sinking
<1>3. f \in [1..N -> [S -> S]]
  BY SinkIs
<1> HIDE DEF S
<1>4. PICK g \in [0..N -> S] : Looped(g, N, base, f)
  <2> HIDE DEF f, base, N, J
  <2> QED
    BY <1>1, <1>2, <1>3, LoopRuns
<1>5. g = [n \in 0..N |-> IF n = 0 THEN base ELSE Heap!Sink(g[n - 1])]
  <2>1. ASSUME NEW n \in 0..N, n # 0 PROVE f[n][g[n - 1]] = Heap!Sink(g[n - 1])
    <3>1. n \in 1..N /\ n - 1 \in 0..N
      BY <2>1
    <3> QED
      BY <1>4, <3>1
  <2> QED
    BY <1>4, <2>1 DEF Looped
<1>6. PICK run : /\ run = [n \in 0..N |-> IF n = 0 THEN base ELSE Heap!Sink(run[n - 1])]
                 /\ Heap!BubbleDown(h, 1) = run[N].heap
  BY <1>5 DEF Heap!BubbleDown
<1> HIDE DEF N, base, f
<1>7. run[0] \in J[0]
  <2>1. run[0] = base
    BY <1>1, <1>6
  <2> QED
    BY <1>1, <1>2, <2>1 DEF base
<1>8. ASSUME NEW n \in 1..N, run[n - 1] \in J[n - 1]
      PROVE  run[n] \in J[n]
  <2>1. n - 1 \in 0..N /\ n \in 0..N /\ n # 0
    BY <1>1
  <2>2. run[n] = Heap!Sink(run[n - 1])
    BY <1>6, <2>1
  <2>3. PICK s \in S : s = run[n - 1] /\ (Sunk(s) \/ s.at > n - 1)
    BY <1>8, <2>1
  <2>4. /\ Heap!Sink(s) \in S /\ s.at \in Int /\ Heap!Sink(s).at \in Int
        /\ Sunk(s) => Heap!Sink(s) = s
        /\ ~Sunk(s) => Heap!Sink(s).at > s.at
    <3>1. \A z \in S : z.at \in Int
      BY DEF S, Sinking
    <3> QED
      BY <2>3, <3>1, SinkIs DEF S
  <2>5. PICK z \in S : z = Heap!Sink(s) /\ z = run[n]
    BY <2>2, <2>3, <2>4
  <2>6. Sunk(z) \/ z.at > n
    <3>1. CASE Sunk(s)
      BY <2>4, <2>5, <3>1
    <3>2. CASE ~Sunk(s)
      BY <1>1, <2>1, <2>3, <2>4, <2>5, <3>2
    <3> QED
      BY <3>1, <3>2
  <2> QED
    BY <2>1, <2>5, <2>6
<1> HIDE DEF J
<1>9. \A n \in 0..N : run[n] \in J[n]
  BY <1>1, <1>7, <1>8, LoopKeeps
<1>10. PICK s \in S : s = run[N] /\ (Sunk(s) \/ s.at > N)
  BY <1>1, <1>9 DEF J
<1>11. s.at \in Int /\ s.at <= N /\ s.heap \in Seq(E) /\ Shuffled(h, s.heap)
  BY <1>10 DEF S, Sinking, N
<1>12. Sunk(s)
  BY <1>1, <1>10, <1>11
<1>13. Ordered(s.heap)
  BY <1>10, <1>12, SinkIs DEF S
<1> QED
  BY <1>6, <1>10, <1>11, <1>13

\* The first entry of an ordered heap is nearest.
LEMMA FirstIsLeast ==
  ASSUME NEW E, Queued(E), NEW h \in Seq(E), Ordered(h), NEW i \in 1..Len(h)
  PROVE  h[1].minDist <= h[i].minDist
<1> DEFINE D == {n \in 1..Len(h) : h[1].minDist <= h[n].minDist}
<1>1. ASSUME NEW k \in 1..Len(h), \A j \in 1..(k - 1) : j \in D
      PROVE  k \in D
  <2>0. 1 \in 1..Len(h) /\ h[1].minDist \in Int /\ h[k].minDist \in Int
    BY DEF Queued
  <2>1. CASE k = 1
    BY <2>0, <2>1
  <2>2. CASE k > 1
    <3>1. k \div 2 \in 1..(k - 1) /\ k \in 2..Len(h) /\ k \div 2 \in 1..Len(h)
      BY <2>2
    <3>2. h[1].minDist <= h[k \div 2].minDist
      BY <1>1, <3>1
    <3>3. h[k \div 2].minDist <= h[k].minDist /\ h[k \div 2].minDist \in Int
      BY <3>1 DEF Ordered, OrderedAt, Queued
    <3> QED
      BY <2>0, <3>2, <3>3
  <2> QED
    BY <2>1, <2>2
<1> HIDE DEF D
<1>2. 1..Len(h) \subseteq D
  <2>1. 1 \in Nat /\ Len(h) \in Nat
    OBVIOUS
  <2> QED
    BY <1>1, <2>1, UpTo
<1> QED
  BY <1>2 DEF D

LEMMA PoppedIs ==
  ASSUME NEW E, Queued(E), NEW h \in Seq(E), h # <<>>, Ordered(h), Distinct(h)
  PROVE  LET g == Heap!Popped(h)
         IN  /\ g \in Seq(E) /\ Ordered(g) /\ Distinct(g)
             /\ Range(g) = Range(h) \ {Heap!Peek(h)}
             /\ Heap!Peek(h) \in Range(h)
<1>1. Len(h) \in Nat /\ Len(h) > 0 /\ DOMAIN h = 1..Len(h) /\ Heap!Peek(h) = h[1]
  BY DEF Heap!Peek
<1>2. h[1] \in Range(h)
  BY <1>1 DEF Range
<1>3. CASE Len(h) = 1
  <2>1. Range(h) = {h[1]}
    BY <1>1, <1>3 DEF Range
  <2>2. Heap!Popped(h) = <<>>
    BY <1>3 DEF Heap!Popped
  <2>3. /\ <<>> \in Seq(E) /\ Ordered(<<>>) /\ Distinct(<<>>) /\ Range(<<>>) = {}
    BY DEF Ordered, Distinct, Range
  <2> QED
    BY <1>1, <1>2, <2>1, <2>2, <2>3
<1>4. CASE Len(h) # 1
  <2> DEFINE f == [Front(h) EXCEPT ![1] = Last(h)]
  <2>1. /\ f \in Seq(E) /\ Len(f) = Len(h) - 1 /\ f[1] = h[Len(h)]
        /\ \A i \in 2..Len(f) : f[i] = h[i]
    <3>1. /\ Front(h) \in Seq(E) /\ Len(Front(h)) = Len(h) - 1
          /\ \A i \in 1..(Len(h) - 1) : Front(h)[i] = h[i]
      BY <1>1 DEF Front
    <3>2. Last(h) \in E /\ Last(h) = h[Len(h)]
      BY <1>1 DEF Last
    <3>3. PICK b, x : b = Front(h) /\ x = Last(h)
      OBVIOUS
    <3>4. PICK t : t = f /\ t = [b EXCEPT ![1] = x]
      BY <3>3
    <3>5. b \in Seq(E) /\ x \in E /\ Len(b) >= 1 /\ 1 \in 1..Len(b)
      BY <1>1, <1>4, <3>1, <3>2, <3>3
    <3> HIDE DEF f
    <3>6. /\ t \in Seq(E) /\ Len(t) = Len(b) /\ t[1] = x
          /\ \A i \in 2..Len(b) : t[i] = b[i]
      BY <3>4, <3>5
    <3>7. \A i \in 2..Len(b) : b[i] = h[i]
      BY <1>1, <3>1, <3>3
    <3> QED
      BY <3>1, <3>2, <3>3, <3>4, <3>6, <3>7
  <2>2. PICK g : g = Heap!Popped(h) /\ g = Heap!BubbleDown(f, 1)
    <3>1. Heap!Popped(h) = Heap!BubbleDown(f, 1)
      BY <1>4 DEF Heap!Popped, Heap!Front, Heap!Last, Front, Last
    <3> QED
      BY <3>1
  <2> HIDE DEF f
  <2>3. Len(f) \in Nat /\ Len(f) > 0 /\ DOMAIN f = 1..Len(f)
    BY <1>1, <1>4, <2>1
  <2>0. Len(h) \in Nat /\ Len(h) > 1 /\ Len(f) = Len(h) - 1
    BY <1>1, <1>4, <2>1
  <2>4. ASSUME NEW j \in 2..Len(f), j \div 2 # 1 PROVE OrderedAt(f, j)
    <3>1. j \div 2 \in 2..Len(f) /\ j \in 2..Len(h)
      BY <1>1, <2>1, <2>3, <2>4
    <3> QED
      BY <2>1, <3>1 DEF Ordered, OrderedAt
  <2>5. g \in Seq(E) /\ Shuffled(f, g) /\ Ordered(g)
    BY <2>1, <2>2, <2>3, <2>4, BubbleDownIs
  <2>6. \A i, j \in 1..Len(h) : h[i] = h[j] => i = j
    BY DEF Distinct
  <2>7. Distinct(f)
    <3> SUFFICES ASSUME NEW i \in 1..Len(f), NEW j \in 1..Len(f), f[i] = f[j] PROVE i = j
      BY DEF Distinct
    <3>1. \A n \in 1..Len(f) : /\ n \in 1..Len(h) /\ n # Len(h)
                            /\ (n = 1 \/ n \in 2..Len(f))
      BY <2>0
    <3>2. Len(h) \in 1..Len(h)
      BY <1>1
    <3>3. /\ i \in 1..Len(h) /\ i # Len(h) /\ (i = 1 \/ i \in 2..Len(f))
          /\ j \in 1..Len(h) /\ j # Len(h) /\ (j = 1 \/ j \in 2..Len(f))
      BY <3>1
    <3>4. f[i] = (IF i = 1 THEN h[Len(h)] ELSE h[i]) /\ f[j] = (IF j = 1 THEN h[Len(h)] ELSE h[j])
      BY <2>1, <3>3
    <3>5. CASE i = 1
      BY <2>6, <3>2, <3>3, <3>4, <3>5
    <3>6. CASE i # 1
      BY <2>6, <3>2, <3>3, <3>4, <3>6
    <3> QED
      BY <3>5, <3>6
  <2>8. Range(f) = Range(h) \ {h[1]}
    <3>1. ASSUME NEW i \in 1..Len(f) PROVE f[i] \in Range(h) /\ f[i] # h[1]
      <4>1. CASE i = 1
        BY <1>1, <1>4, <2>1, <2>6, <4>1 DEF Range
      <4>2. CASE i # 1
        <5>1. i \in 2..Len(f) /\ i \in 1..Len(h) /\ 1 \in 1..Len(h)
          BY <1>1, <2>1, <2>3, <4>2
        <5> QED
          BY <1>1, <2>1, <2>6, <4>2, <5>1 DEF Range
      <4> QED
        BY <4>1, <4>2
    <3>2. ASSUME NEW i \in 1..Len(h), h[i] # h[1] PROVE h[i] \in Range(f)
      <4>1. CASE i = Len(h)
        BY <2>1, <2>3, <4>1 DEF Range
      <4>2. CASE i # Len(h)
        <5>0. i # 1
          BY <3>2
        <5>1. i \in 2..Len(f) /\ i \in 1..Len(f)
          BY <2>0, <4>2, <5>0
        <5> QED
          BY <2>1, <2>3, <5>1 DEF Range
      <4> QED
        BY <4>1, <4>2
    <3> QED
      BY <1>1, <2>3, <3>1, <3>2 DEF Range
  <2> QED
    BY <1>1, <1>2, <2>2, <2>5, <2>7, <2>8 DEF Shuffled
<1> QED
  BY <1>3, <1>4

-----------------------------------------------------------------------------
(* Distances *)

LEMMA SquareIs ==
  ASSUME NEW a \in Int, NEW b \in Int, (0 <= a /\ a <= b) \/ (b <= a /\ a <= 0)
  PROVE  Square(a) \in Int /\ Square(b) \in Int /\ Square(a) <= Square(b)
<1>1. CASE 0 <= a /\ a <= b
  <2>1. a * a <= a * b /\ a * b <= b * b
    BY <1>1
  <2>2. a * a \in Int /\ a * b \in Int /\ b * b \in Int
    OBVIOUS
  <2> QED
    BY <2>1, <2>2 DEF Square
<1>2. CASE b <= a /\ a <= 0
  <2>1. a * a <= a * b /\ a * b <= b * b
    BY <1>2
  <2>2. a * a \in Int /\ a * b \in Int /\ b * b \in Int
    OBVIOUS
  <2> QED
    BY <2>1, <2>2 DEF Square
<1> QED
  BY <1>1, <1>2

LEMMA ClampIs ==
  ASSUME NEW x \in Int, NEW low \in Int, NEW high \in Int, NEW p \in Int,
         low <= p, p <= high
  PROVE  LET c == Clamp(x, low, high)
         IN  /\ c \in Int
             /\ (0 <= x - c /\ x - c <= x - p) \/ (x - p <= x - c /\ x - c <= 0)
<1> DEFINE m == IF x <= high THEN x ELSE high
           c == IF low >= m THEN low ELSE m
<1>1. Min({x, high}) = m
  <2>1. m \in {x, high} /\ m <= x /\ m <= high
    OBVIOUS
  <2>2. \A z \in {x, high} : (\A y \in {x, high} : z <= y) => z = m
    OBVIOUS
  <2> HIDE DEF m
  <2> QED
    BY <2>1, <2>2 DEF Min
<1>2. m \in Int
  OBVIOUS
<1>3. Max({low, m}) = c
  <2> HIDE DEF m
  <2>1. c \in {low, m} /\ \A y \in {low, m} : c >= y
    BY <1>2
  <2>2. \A z \in {low, m} : (\A y \in {low, m} : z >= y) => z = c
    BY <1>2
  <2> HIDE DEF c
  <2> QED
    BY <2>1, <2>2 DEF Max
<1>4. Clamp(x, low, high) = c
  BY <1>1, <1>3 DEF Clamp
<1>5. c \in Int /\ ((0 <= x - c /\ x - c <= x - p) \/ (x - p <= x - c /\ x - c <= 0))
  OBVIOUS
<1> QED
  BY <1>4, <1>5

LEMMA DistanceTyped ==
  ASSUME NEW p \in Places, NEW q \in Places
  PROVE  Distance(p, q) \in Int
<1>1. Lat(p) \in Int /\ Lng(p) \in Int /\ Lat(q) \in Int /\ Lng(q) \in Int
  BY DEF Places, Lat, Lng
<1>2. Lat(p) - Lat(q) \in Int /\ Lng(p) - Lng(q) \in Int
  BY <1>1
<1>3. \A x \in Int : Square(x) \in Int
  BY DEF Square
<1> QED
  BY <1>2, <1>3 DEF Distance

\* The clamped point is the nearest of a box.
LEMMA BoxIsNear ==
  ASSUME NEW q \in Places, NEW b \in Box, NEW p \in Places, InBox(b, p)
  PROVE  MinDistanceToBox(q, b) \in Int /\ MinDistanceToBox(q, b) <= Distance(q, p)
<1>1. /\ Lat(p) \in Int /\ Lng(p) \in Int /\ Lat(q) \in Int /\ Lng(q) \in Int
      /\ b.minLat \in Int /\ b.maxLat \in Int /\ b.minLng \in Int /\ b.maxLng \in Int
      /\ b.minLat <= Lat(p) /\ Lat(p) <= b.maxLat
      /\ b.minLng <= Lng(p) /\ Lng(p) <= b.maxLng
  BY DEF Places, Lat, Lng, Box, InBox
<1>2. PICK x, y : x = Clamp(Lat(q), b.minLat, b.maxLat) /\ y = Clamp(Lng(q), b.minLng, b.maxLng)
  OBVIOUS
<1> DEFINE u == Lat(q) - x
           v == Lng(q) - y
           r == Lat(q) - Lat(p)
           s == Lng(q) - Lng(p)
<1>3. x \in Int /\ ((0 <= u /\ u <= r) \/ (r <= u /\ u <= 0))
  BY <1>1, <1>2, ClampIs
<1>4. y \in Int /\ ((0 <= v /\ v <= s) \/ (s <= v /\ v <= 0))
  BY <1>1, <1>2, ClampIs
<1>5. u \in Int /\ v \in Int /\ r \in Int /\ s \in Int
  BY <1>1, <1>3, <1>4
<1>6. MinDistanceToBox(q, b) = Square(u) + Square(v)
  BY <1>2 DEF MinDistanceToBox, Distance, Lat, Lng
<1>7. Distance(q, p) = Square(r) + Square(s)
  BY DEF Distance
<1> HIDE DEF u, v, r, s
<1>8. Square(u) \in Int /\ Square(r) \in Int /\ Square(u) <= Square(r)
  BY <1>3, <1>5, SquareIs
<1>9. Square(v) \in Int /\ Square(s) \in Int /\ Square(v) <= Square(s)
  BY <1>4, <1>5, SquareIs
<1> QED
  BY <1>6, <1>7, <1>8, <1>9

-----------------------------------------------------------------------------
(* The list of candidates *)

Candidate == [id : Drivers, distance : Int]

Ids(c) == {c[i].id : i \in 1..Len(c)}

\* At most k drivers, each once, nearest first.
Ranked(c, k) ==
    /\ c \in Seq(Candidate) /\ Len(c) <= k
    /\ \A i, j \in 1..Len(c) : i < j => c[i].distance <= c[j].distance
    /\ \A i, j \in 1..Len(c) : c[i].id = c[j].id => i = j

\* The list is full, and holds nothing farther than x.
Beaten(c, k, x) == Len(c) = k /\ c[k].distance <= x

\* What insertSortedCandidate makes of c for e: nothing is lost to anything farther.
Inserts(r, c, e, k) ==
    /\ Ranked(r, k)
    /\ Range(r) \subseteq Range(c) \cup {e}
    /\ \A x \in Range(c) \cup {e} : x \in Range(r) \/ Beaten(r, k, x.distance)
    /\ \A x \in Int : Beaten(c, k, x) => Beaten(r, k, x)

LEMMA InsertAtIs ==
  ASSUME NEW S, NEW c \in Seq(S), NEW e \in S, NEW m \in 1..(Len(c) + 1)
  PROVE  LET l == InsertAt(c, m, e)
         IN  /\ l \in Seq(S) /\ Len(l) = Len(c) + 1 /\ l[m] = e
             /\ \A i \in 1..(m - 1) : l[i] = c[i]
             /\ \A i \in (m + 1)..(Len(c) + 1) : l[i] = c[i - 1]
<1>0. PICK n \in Nat : n = Len(c)
  OBVIOUS
<1>1. PICK a, b : a = SubSeq(c, 1, m - 1) /\ b = SubSeq(c, m, n)
  OBVIOUS
<1>2. /\ a \in Seq(S) /\ Len(a) = m - 1
      /\ \A i \in 1..(m - 1) : a[i] = c[i]
  BY <1>0, <1>1
<1>3. /\ b \in Seq(S) /\ Len(b) = n - m + 1
      /\ \A i \in 1..(n - m + 1) : b[i] = c[m + i - 1]
  <2>1. CASE m <= n
    BY <1>0, <1>1, <2>1
  <2>2. CASE m = n + 1
    BY <1>0, <1>1, <2>2
  <2> QED
    BY <1>0, <2>1, <2>2
<1>4. PICK ae : ae = a \o <<e>>
  OBVIOUS
<1>5. /\ ae \in Seq(S) /\ Len(ae) = m /\ ae[m] = e
      /\ \A i \in 1..(m - 1) : ae[i] = a[i]
  BY <1>0, <1>2, <1>4
<1>6. PICK l : l = ae \o b
  OBVIOUS
<1>7. InsertAt(c, m, e) = l
  BY <1>0, <1>1, <1>4, <1>6 DEF InsertAt
<1>8. /\ l \in Seq(S) /\ Len(l) = Len(ae) + Len(b)
      /\ \A i \in 1..(Len(ae) + Len(b)) :
              l[i] = IF i <= Len(ae) THEN ae[i] ELSE b[i - Len(ae)]
  BY <1>3, <1>5, <1>6, ConcatProperties
<1>9. Len(l) = n + 1
  BY <1>0, <1>3, <1>5, <1>8
<1>10. \A i \in 1..(n + 1) : l[i] = IF i <= m THEN ae[i] ELSE b[i - m]
  BY <1>0, <1>3, <1>5, <1>8
<1>11. l[m] = e /\ \A i \in 1..(m - 1) : l[i] = c[i]
  <2>1. m \in 1..(n + 1)
    BY <1>0
  <2>2. \A i \in 1..(m - 1) : i \in 1..(n + 1) /\ i <= m
    BY <2>1
  <2> QED
    BY <1>2, <1>5, <1>10, <2>1, <2>2
<1>12. ASSUME NEW i \in (m + 1)..(n + 1) PROVE l[i] = c[i - 1]
  <2>1. i \in 1..(n + 1) /\ ~(i <= m) /\ i - m \in 1..(n - m + 1) /\ m + (i - m) - 1 = i - 1
    BY <1>0
  <2> QED
    BY <1>3, <1>10, <2>1
<1> QED
  BY <1>0, <1>7, <1>8, <1>9, <1>11, <1>12

LEMMA InsertSortedIs ==
  ASSUME NEW k \in Nat, k > 0, NEW c, Ranked(c, k), NEW e \in Candidate, e.id \notin Ids(c)
  PROVE  Inserts(InsertSorted(c, e, k), c, e, k)
<1> DEFINE Farther(i) == i > Len(c) \/ c[i].distance > e.distance
           Ends == {i \in 1..(Len(c) + 1) : Farther(i)}
           m == Min(Ends)
<1>1. /\ c \in Seq(Candidate) /\ Len(c) <= k /\ Len(c) \in Nat /\ DOMAIN c = 1..Len(c)
      /\ \A i, j \in 1..Len(c) : i < j => c[i].distance <= c[j].distance
      /\ \A i, j \in 1..Len(c) : c[i].id = c[j].id => i = j
      /\ \A i \in 1..Len(c) : c[i].id # e.id /\ c[i].distance \in Int
  <2>1. /\ c \in Seq(Candidate) /\ Len(c) <= k
        /\ \A i, j \in 1..Len(c) : i < j => c[i].distance <= c[j].distance
        /\ \A i, j \in 1..Len(c) : c[i].id = c[j].id => i = j
    BY DEF Ranked
  <2>2. Len(c) \in Nat /\ DOMAIN c = 1..Len(c)
    BY <2>1
  <2>3. \A i \in 1..Len(c) : c[i].distance \in Int
    <3>1. \A i \in 1..Len(c) : c[i] \in Candidate
      BY <2>1
    <3> QED
      BY <3>1 DEF Candidate
  <2>4. \A i \in 1..Len(c) : c[i].id # e.id
    BY DEF Ids
  <2> QED
    BY <2>1, <2>2, <2>3, <2>4
<1>2. e.distance \in Int
  BY DEF Candidate
<1>3. m \in 1..(Len(c) + 1) /\ Farther(m) /\ \A i \in 1..(m - 1) : ~Farther(i)
  <2>1. Ends \in SUBSET Nat /\ Len(c) + 1 \in Ends
    BY <1>1
  <2> HIDE DEF Farther
  <2>2. m \in Ends /\ \A y \in Ends : m <= y
    <3> HIDE DEF Ends
    <3> QED
      BY <2>1, MinIs
  <2>3. \A i \in 1..(m - 1) : i \in 1..(Len(c) + 1) /\ ~(m <= i)
    BY <1>1, <2>2
  <2> QED
    BY <2>2, <2>3
<1> DEFINE l == InsertAt(c, m, e)
<1>4. InsertSorted(c, e, k) =
        IF Len(c) = k /\ e.distance >= c[k].distance THEN c
        ELSE IF Len(l) > k THEN Front(l) ELSE l
  BY DEF InsertSorted
<1> HIDE DEF m
<1>5. /\ l \in Seq(Candidate) /\ Len(l) = Len(c) + 1 /\ l[m] = e
      /\ \A i \in 1..(m - 1) : l[i] = c[i]
      /\ \A i \in (m + 1)..(Len(c) + 1) : l[i] = c[i - 1]
  <2>1. c \in Seq(Candidate) /\ m \in 1..(Len(c) + 1)
    BY <1>1, <1>3
  <2> QED
    BY <2>1, InsertAtIs
<1> HIDE DEF l
<1>6. PICK n \in Nat : n = Len(c)
  BY <1>1
<1>7. ASSUME NEW i \in 1..(n + 1)
      PROVE  \/ i \in 1..(m - 1) /\ i \in 1..n /\ l[i] = c[i] /\ c[i].distance <= e.distance
             \/ i = m /\ l[i] = e
             \/ i \in (m + 1)..(n + 1) /\ i - 1 \in 1..n /\ l[i] = c[i - 1]
                    /\ e.distance < c[i - 1].distance
  <2>1. CASE i < m
    <3>1. i \in 1..(m - 1) /\ i \in 1..n
      BY <1>3, <1>6, <2>1
    <3>2. c[i].distance <= e.distance
      BY <1>1, <1>2, <1>3, <1>6, <3>1
    <3> QED
      BY <1>5, <3>1, <3>2
  <2>2. CASE i = m
    BY <1>5, <2>2
  <2>3. CASE i > m
    <3>1. i \in (m + 1)..(n + 1) /\ i - 1 \in 1..n /\ m \in 1..n
      BY <1>3, <1>6, <2>3
    <3>2. e.distance < c[m].distance
      BY <1>1, <1>2, <1>3, <1>6, <3>1
    <3>3. c[m].distance <= c[i - 1].distance
      BY <1>1, <1>6, <2>3, <3>1
    <3>4. c[m].distance \in Int /\ c[i - 1].distance \in Int
      BY <1>1, <1>6, <3>1
    <3>5. l[i] = c[i - 1]
      BY <1>5, <1>6, <3>1
    <3> QED
      BY <1>2, <3>1, <3>2, <3>3, <3>4, <3>5
  <2> QED
    BY <1>3, <2>1, <2>2, <2>3
<1>8. ASSUME NEW i \in 1..(n + 1), NEW j \in 1..(n + 1), i < j
      PROVE  l[i].distance <= l[j].distance /\ l[i].id # l[j].id
  <2>1. CASE i \in 1..(m - 1) /\ j \in 1..(m - 1)
    BY <1>1, <1>3, <1>6, <1>7, <1>8, <2>1
  <2>2. CASE i \in 1..(m - 1) /\ j = m
    BY <1>1, <1>3, <1>6, <1>7, <1>8, <2>2
  <2>3. CASE i \in 1..(m - 1) /\ j \in (m + 1)..(n + 1)
    <3>1. i \in 1..n /\ j - 1 \in 1..n /\ l[i] = c[i] /\ l[j] = c[j - 1] /\ i < j - 1
      BY <1>3, <1>6, <1>7, <2>3
    <3> QED
      BY <1>1, <1>6, <3>1
  <2>4. CASE i = m /\ j \in (m + 1)..(n + 1)
    <3>1. j - 1 \in 1..n /\ l[j] = c[j - 1] /\ e.distance < c[j - 1].distance /\ l[i] = e
      BY <1>3, <1>5, <1>6, <1>7, <2>4
    <3> QED
      BY <1>1, <1>2, <1>6, <3>1
  <2>5. CASE i \in (m + 1)..(n + 1) /\ j \in (m + 1)..(n + 1)
    <3>1. i - 1 \in 1..n /\ j - 1 \in 1..n /\ l[i] = c[i - 1] /\ l[j] = c[j - 1] /\ i - 1 < j - 1
      BY <1>3, <1>6, <1>7, <1>8, <2>5
    <3> QED
      BY <1>1, <1>6, <3>1
  <2> QED
    BY <1>3, <1>6, <1>8, <2>1, <2>2, <2>3, <2>4, <2>5
<1>9. DOMAIN l = 1..(n + 1) /\ Len(l) = n + 1
  BY <1>5, <1>6
<1>10. ASSUME NEW i \in 1..(n + 1) PROVE l[i] \in Range(c) \cup {e}
  BY <1>1, <1>6, <1>7 DEF Range
<1>11. Range(c) \cup {e} = Range(l)
  <2>1. ASSUME NEW i \in 1..n PROVE c[i] \in Range(l)
    <3>1. CASE i < m
      <4>1. i \in 1..(m - 1) /\ i \in 1..(n + 1)
        BY <1>3, <1>6, <3>1
      <4> QED
        BY <1>5, <1>9, <4>1 DEF Range
    <3>2. CASE i >= m
      <4>1. i + 1 \in (m + 1)..(n + 1) /\ i + 1 \in 1..(n + 1) /\ (i + 1) - 1 = i
        BY <1>3, <1>6, <3>2
      <4> QED
        BY <1>5, <1>6, <1>9, <4>1 DEF Range
    <3> QED
      BY <1>3, <1>6, <3>1, <3>2
  <2>2. e \in Range(l)
    BY <1>3, <1>5, <1>6, <1>9 DEF Range
  <2> QED
    BY <1>1, <1>6, <1>9, <1>10, <2>1, <2>2 DEF Range
<1>12. CASE Len(c) = k /\ e.distance >= c[k].distance
  <2>1. InsertSorted(c, e, k) = c
    BY <1>4, <1>12
  <2>2. Beaten(c, k, e.distance)
    BY <1>1, <1>2, <1>12 DEF Beaten
  <2> QED
    BY <2>1, <2>2 DEF Inserts
<1>13. CASE ~(Len(c) = k /\ e.distance >= c[k].distance) /\ n + 1 > k
  <2>1. n = k /\ k \in 1..n
    BY <1>1, <1>6, <1>13
  <2>2. e.distance < c[k].distance
    BY <1>1, <1>2, <1>6, <1>13, <2>1
  <2>3. PICK r : r = Front(l) /\ r = InsertSorted(c, e, k)
    BY <1>4, <1>9, <1>13
  <2>4. r \in Seq(Candidate) /\ Len(r) = k /\ \A i \in 1..k : r[i] = l[i]
    BY <1>5, <1>9, <2>1, <2>3 DEF Front
  <2>5. \A i \in 1..k : i \in 1..(n + 1)
    BY <2>1
  <2>6. Ranked(r, k)
    <3>1. ASSUME NEW i \in 1..k, NEW j \in 1..k, i < j PROVE r[i].distance <= r[j].distance
      BY <1>8, <2>4, <2>5, <3>1
    <3>2. ASSUME NEW i \in 1..k, NEW j \in 1..k, r[i].id = r[j].id PROVE i = j
      <4>1. ~(i < j) /\ ~(j < i)
        BY <1>8, <2>4, <2>5, <3>2
      <4> QED
        BY <4>1
    <3> QED
      BY <2>4, <3>1, <3>2 DEF Ranked
  <2>7. k + 1 \in 1..(n + 1) /\ k \in 1..(n + 1) /\ k < k + 1
    BY <2>1
  <2>8. l[k].distance <= l[k + 1].distance
    BY <1>8, <2>7
  <2>9. l[k + 1] = c[k]
    <3>1. m # k + 1
      <4> SUFFICES ASSUME m = k + 1 PROVE FALSE
        OBVIOUS
      <4>1. k \in 1..(m - 1)
        BY <2>1
      <4>2. c[k].distance <= e.distance
        BY <1>7, <2>7, <4>1
      <4> QED
        BY <1>1, <1>2, <1>6, <2>1, <2>2, <4>2
    <3>2. ~(k + 1 \in 1..(m - 1))
      BY <1>3, <1>6, <2>1
    <3>3. (k + 1) - 1 = k
      OBVIOUS
    <3> QED
      BY <1>7, <2>7, <3>1, <3>2, <3>3
  <2>10. DOMAIN r = 1..k
    BY <2>4
  <2>11. Range(r) \subseteq Range(l)
    BY <1>9, <2>4, <2>5, <2>10 DEF Range
  <2>12. r[k].distance \in Int /\ c[k].distance \in Int /\ r[k].distance <= c[k].distance
    <3>1. r[k] = l[k] /\ l[k] \in Candidate
      BY <1>5, <1>9, <2>1, <2>4, <2>7
    <3> QED
      BY <1>1, <1>6, <2>1, <2>8, <2>9, <3>1 DEF Candidate
  <2>13. ASSUME NEW x \in Range(l), x \notin Range(r) PROVE Beaten(r, k, x.distance)
    <3>1. PICK i \in 1..(n + 1) : x = l[i]
      BY <1>9 DEF Range
    <3>2. i = k + 1
      <4>1. i \notin 1..k
        BY <2>4, <2>10, <2>13, <3>1 DEF Range
      <4> QED
        BY <2>1, <4>1
    <3> QED
      BY <2>4, <2>9, <2>12, <3>1, <3>2 DEF Beaten
  <2>14. ASSUME NEW x \in Int, Beaten(c, k, x) PROVE Beaten(r, k, x)
    BY <2>4, <2>12, <2>14 DEF Beaten
  <2> QED
    BY <1>11, <2>3, <2>6, <2>11, <2>13, <2>14 DEF Inserts
<1>14. CASE ~(Len(c) = k /\ e.distance >= c[k].distance) /\ ~(n + 1 > k)
  <2>1. InsertSorted(c, e, k) = l
    BY <1>4, <1>9, <1>14
  <2>2. Ranked(l, k)
    <3>1. ASSUME NEW i \in 1..(n + 1), NEW j \in 1..(n + 1), l[i].id = l[j].id PROVE i = j
      <4>1. ~(i < j) /\ ~(j < i)
        BY <1>8, <3>1
      <4> QED
        BY <4>1
    <3> QED
      BY <1>5, <1>8, <1>9, <1>14, <3>1 DEF Ranked
  <2>3. ~(Len(c) = k)
    BY <1>6, <1>14
  <2> QED
    BY <1>11, <2>1, <2>2, <2>3 DEF Inserts, Beaten
<1> QED
  BY <1>12, <1>13, <1>14

\* Insertion keeps the type of any list.
LEMMA InsertTyped ==
  ASSUME NEW c \in Seq(Candidate), NEW e \in Candidate, NEW k \in Nat
  PROVE  InsertSorted(c, e, k) \in Seq(Candidate)
<1> DEFINE Ends == {i \in 1..(Len(c) + 1) : i > Len(c) \/ c[i].distance > e.distance}
           l == InsertAt(c, Min(Ends), e)
<1>1. Ends \in SUBSET Nat /\ Len(c) + 1 \in Ends
  OBVIOUS
<1>2. Min(Ends) \in 1..(Len(c) + 1)
  <2>1. Min(Ends) \in Ends
    <3> HIDE DEF Ends
    <3> QED
      BY <1>1, MinIs
  <2> QED
    BY <2>1
<1>3. InsertSorted(c, e, k) =
        IF Len(c) = k /\ e.distance >= c[k].distance THEN c
        ELSE IF Len(l) > k THEN Front(l) ELSE l
  BY DEF InsertSorted
<1> HIDE DEF Ends
<1>4. l \in Seq(Candidate) /\ Len(l) = Len(c) + 1
  BY <1>2, InsertAtIs
<1> HIDE DEF l
<1>5. Front(l) \in Seq(Candidate)
  BY <1>4 DEF Front
<1> QED
  BY <1>3, <1>4, <1>5

-----------------------------------------------------------------------------
(* The nodes in the queue *)

Entry(q, m) == [node |-> m, minDist |-> MinDistanceToBox(q, Bounds[m])]
Entries(q) == {Entry(q, m) : m \in Nodes}
NodesOf(h) == {e.node : e \in Range(h)}

\* The queue is a heap of nodes, each there once.
Queue(h, q) == h \in Seq(Entries(q)) /\ Ordered(h) /\ Distinct(h)

LEMMA EntryIs ==
  ASSUME NEW q \in Places
  PROVE  /\ Queued(Entries(q))
         /\ \A m \in Nodes : /\ Entry(q, m) \in Entries(q) /\ Entry(q, m).node = m
                           /\ Entry(q, m).minDist = MinDistanceToBox(q, Bounds[m])
                           /\ Entry(q, m).minDist \in Int
         /\ \A e \in Entries(q) : e.node \in Nodes /\ e = Entry(q, e.node)
<1>1. ASSUME NEW m \in Nodes
      PROVE  /\ Entry(q, m) \in Entries(q) /\ Entry(q, m).node = m
             /\ Entry(q, m).minDist = MinDistanceToBox(q, Bounds[m])
             /\ Entry(q, m).minDist \in Int
  <2>1. Entry(q, m).minDist = MinDistanceToBox(q, Bounds[m]) /\ Entry(q, m).node = m
    BY DEF Entry
  <2>2. PICK b \in Box : b = Bounds[m]
    BY BoxTyped
  <2>3. PICK p : p = <<b.minLat, b.minLng>>
    OBVIOUS
  <2>4. p \in Places /\ InBox(b, p)
    BY <2>3 DEF Box, Places, InBox, Lat, Lng
  <2>5. MinDistanceToBox(q, b) \in Int
    BY <2>4, BoxIsNear
  <2> QED
    BY <2>1, <2>2, <2>5 DEF Entries
<1>2. ASSUME NEW e \in Entries(q) PROVE e.node \in Nodes /\ e = Entry(q, e.node)
  BY <1>1 DEF Entries
<1>3. Queued(Entries(q))
  BY <1>1, <1>2 DEF Queued
<1> QED
  BY <1>1, <1>2, <1>3

LEMMA QueueNodes ==
  ASSUME NEW q \in Places, NEW h, Queue(h, q)
  PROVE  /\ NodesOf(h) \subseteq Nodes
         /\ \A m \in Nodes : m \in NodesOf(h) <=> Entry(q, m) \in Range(h)
         /\ \A e \in Range(h) : e \in Entries(q)
<1>1. h \in Seq(Entries(q)) /\ DOMAIN h = 1..Len(h)
  BY DEF Queue
<1>2. \A e \in Range(h) : e \in Entries(q)
  BY <1>1 DEF Range
<1> QED
  BY <1>2, EntryIs DEF NodesOf

LEMMA OfferedIs ==
  ASSUME NEW q \in Places, NEW h, Queue(h, q), NEW m \in Nodes, m \notin NodesOf(h),
         NEW radius \in Int
  PROVE  LET g == Offered(h, m, q, radius)
         IN  /\ Queue(g, q)
             /\ NodesOf(g) = NodesOf(h) \cup
                    (IF MinDistanceToBox(q, Bounds[m]) <= radius THEN {m} ELSE {})
<1>1. CASE MinDistanceToBox(q, Bounds[m]) <= radius
  <2>1. PICK g : g = Offered(h, m, q, radius) /\ g = Heap!Push(h, Entry(q, m))
    <3>1. Offered(h, m, q, radius) = Heap!Push(h, Entry(q, m))
      BY <1>1 DEF Offered, Entry
    <3> QED
      BY <3>1
  <2>2. PICK E : E = Entries(q) /\ Queued(E)
    BY EntryIs
  <2>3. PICK x \in E : x = Entry(q, m) /\ x.node = m
    BY <2>2, EntryIs
  <2>4. h \in Seq(E) /\ Ordered(h) /\ Distinct(h) /\ x \notin Range(h)
    BY <2>2, <2>3, QueueNodes DEF Queue
  <2>5. g \in Seq(E) /\ Ordered(g) /\ Distinct(g) /\ Range(g) = Range(h) \cup {x}
    BY <2>1, <2>2, <2>3, <2>4, PushIs
  <2>6. NodesOf(g) = NodesOf(h) \cup {m}
    BY <2>3, <2>5 DEF NodesOf
  <2> QED
    BY <1>1, <2>1, <2>2, <2>5, <2>6 DEF Queue
<1>2. CASE ~(MinDistanceToBox(q, Bounds[m]) <= radius)
  BY <1>2 DEF Offered
<1> QED
  BY <1>1, <1>2

ChildrenOf(n) == {Append(n, x) : x \in Quadrants}

Near(q, radius, S) == {m \in S : MinDistanceToBox(q, Bounds[m]) <= radius}

LEMMA ExpandIs ==
  ASSUME NEW q \in Places, NEW h, Queue(h, q), NEW n \in Nodes, Len(n) < MaxDepth,
         ChildrenOf(n) \cap NodesOf(h) = {}, NEW radius \in Int
  PROVE  LET g == Expand(h, n, q, radius)
         IN  Queue(g, q) /\ NodesOf(g) = NodesOf(h) \cup Near(q, radius, ChildrenOf(n))
<1>1. PICK a, b, c, d : a = Append(n, "nw") /\ b = Append(n, "ne")
                     /\ c = Append(n, "sw") /\ d = Append(n, "se")
  OBVIOUS
<1>2. /\ a \in Nodes /\ b \in Nodes /\ c \in Nodes /\ d \in Nodes
      /\ a # b /\ a # c /\ a # d /\ b # c /\ b # d /\ c # d
  <2>1. ASSUME NEW x \in Quadrants PROVE Append(n, x) \in Nodes /\ Last(Append(n, x)) = x
    BY ChildNode
  <2>2. {"nw", "ne", "sw", "se"} = Quadrants
    BY DEF Quadrants
  <2> QED
    BY <1>1, <2>1, <2>2
<1>3. ChildrenOf(n) = {a, b, c, d}
  BY <1>1 DEF ChildrenOf, Quadrants
<1>4. PICK h1, h2, h3, h4 :
        /\ h1 = Offered(h, a, q, radius) /\ h2 = Offered(h1, b, q, radius)
        /\ h3 = Offered(h2, c, q, radius) /\ h4 = Offered(h3, d, q, radius)
  OBVIOUS
<1>5. Expand(h, n, q, radius) = h4
  BY <1>1, <1>4 DEF Expand
<1>6. Queue(h1, q) /\ NodesOf(h1) = NodesOf(h) \cup Near(q, radius, {a})
  <2>1. a \notin NodesOf(h)
    BY <1>3
  <2> QED
    BY <1>2, <1>4, <2>1, OfferedIs DEF Near
<1>7. Queue(h2, q) /\ NodesOf(h2) = NodesOf(h) \cup Near(q, radius, {a, b})
  <2>1. b \notin NodesOf(h1)
    BY <1>2, <1>3, <1>6 DEF Near
  <2>2. Queue(h2, q) /\ NodesOf(h2) = NodesOf(h1) \cup Near(q, radius, {b})
    BY <1>2, <1>4, <1>6, <2>1, OfferedIs DEF Near
  <2> QED
    BY <1>6, <2>2 DEF Near
<1>8. Queue(h3, q) /\ NodesOf(h3) = NodesOf(h) \cup Near(q, radius, {a, b, c})
  <2>1. c \notin NodesOf(h2)
    BY <1>2, <1>3, <1>7 DEF Near
  <2>2. Queue(h3, q) /\ NodesOf(h3) = NodesOf(h2) \cup Near(q, radius, {c})
    BY <1>2, <1>4, <1>7, <2>1, OfferedIs DEF Near
  <2> QED
    BY <1>7, <2>2 DEF Near
<1>9. Queue(h4, q) /\ NodesOf(h4) = NodesOf(h) \cup Near(q, radius, {a, b, c, d})
  <2>1. d \notin NodesOf(h3)
    BY <1>2, <1>3, <1>8 DEF Near
  <2>2. Queue(h4, q) /\ NodesOf(h4) = NodesOf(h3) \cup Near(q, radius, {d})
    BY <1>2, <1>4, <1>8, <2>1, OfferedIs DEF Near
  <2> QED
    BY <1>8, <2>2 DEF Near
<1> QED
  BY <1>3, <1>5, <1>9

\* There are finitely many nodes.
LEMMA FewNodes == IsFiniteSet(Nodes)
<1> DEFINE Upto(k) == {n \in Nodes : Len(n) <= k}
           D == {k \in 0..MaxDepth : IsFiniteSet(Upto(k))}
<1>1. ASSUME NEW k \in 0..MaxDepth, \A j \in 0..(k - 1) : j \in D
      PROVE  k \in D
  <2>1. CASE k = 0
    <3>1. \A n \in Nodes : Len(n) <= 0 => n = Root
      BY NodeShape, RootNode DEF Root
    <3>2. Upto(0) = {Root}
      BY <3>1, RootNode
    <3>3. IsFiniteSet(Upto(0))
      <4>1. IsFiniteSet({Root})
        BY FS_Singleton
      <4> QED
        BY <3>2, <4>1
    <3> QED
      BY <2>1, <3>3
  <2>2. CASE k > 0
    <3> DEFINE S == Upto(k - 1) \X Quadrants
               f == [x \in S |-> Append(x[1], x[2])]
               T == {Append(x[1], x[2]) : x \in S}
    <3>1. IsFiniteSet(Upto(k - 1))
      BY <1>1, <2>2
    <3>2. IsFiniteSet(Quadrants)
      <4>1. IsFiniteSet({} \cup {"nw"})
        BY FS_EmptySet, FS_AddElement
      <4>2. IsFiniteSet(({} \cup {"nw"}) \cup {"ne"})
        BY <4>1, FS_AddElement
      <4>3. IsFiniteSet((({} \cup {"nw"}) \cup {"ne"}) \cup {"sw"})
        BY <4>2, FS_AddElement
      <4>4. IsFiniteSet(((({} \cup {"nw"}) \cup {"ne"}) \cup {"sw"}) \cup {"se"})
        BY <4>3, FS_AddElement
      <4>5. Quadrants = ((({} \cup {"nw"}) \cup {"ne"}) \cup {"sw"}) \cup {"se"}
        BY DEF Quadrants
      <4> QED
        BY <4>4, <4>5
    <3>3. IsFiniteSet(S)
      BY <3>1, <3>2, FS_Product
    <3>4. f \in Surjection(S, T)
      BY DEF Surjection
    <3>5. IsFiniteSet(T)
      <4> HIDE DEF S, f, T
      <4> QED
        BY <3>3, <3>4, FS_Surjection
    <3>6. IsFiniteSet(T \cup {Root})
      BY <3>5, FS_AddElement
    <3>7. ASSUME NEW n \in Upto(k), n # Root PROVE n \in T
      <4>1. Front(n) \in Nodes /\ Len(n) = Len(Front(n)) + 1 /\ Last(n) \in Quadrants
        BY <3>7, ParentNode
      <4>2. Len(Front(n)) <= k - 1
        BY <4>1, NodeShape
      <4>3. n = Append(Front(n), Last(n))
        <5>1. n \in Seq(Quadrants) /\ n # <<>>
          BY <3>7, NodeShape DEF Root
        <5> QED
          BY <5>1 DEF Front, Last
      <4>4. <<Front(n), Last(n)>> \in S
        BY <4>1, <4>2
      <4> QED
        BY <4>3, <4>4
    <3>8. Upto(k) \subseteq T \cup {Root}
      BY <3>7
    <3> QED
      BY <3>6, <3>8, FS_Subset
  <2> QED
    BY <2>1, <2>2
<1> HIDE DEF D
<1>2. 0..MaxDepth \subseteq D
  BY <1>1, Depth, UpTo
<1>3. IsFiniteSet(Upto(MaxDepth))
  BY <1>2, Depth DEF D
<1>4. Upto(MaxDepth) = Nodes
  BY NodeShape
<1> QED
  BY <1>3, <1>4

\* o lists the members of a set, each once.
Lists(o, S) ==
    /\ Len(o) \in Nat /\ S = {o[i] : i \in 1..Len(o)}
    /\ \A i, j \in 1..Len(o) : o[i] = o[j] => i = j

LEMMA OrderIs ==
  ASSUME NEW S, IsFiniteSet(S)
  PROVE  Lists(SetToSeq(S), S)
<1> DEFINE n == Cardinality(S)
<1>1. n \in Nat /\ ExistsBijection(1..n, S)
  BY FS_CardinalityType
<1> HIDE DEF n
<1>2. \E f \in [1..n -> S] : IsInjective(f)
  BY <1>1 DEF ExistsBijection, Bijection, Injection
<1>3. PICK o : o \in [1..n -> S] /\ IsInjective(o) /\ o = SetToSeq(S)
  BY <1>2 DEF SetToSeq, n
<1>4. DOMAIN o = 1..n /\ Len(o) = n
  BY <1>1, <1>3
<1>5. o \in Injection(1..n, S)
  BY <1>3 DEF Injection
<1>6. Cardinality(1..n) = Cardinality(S)
  BY <1>1, FS_Interval DEF n
<1>7. o \in Surjection(1..n, S)
  BY <1>5, <1>6, FS_Injection
<1>8. S = {o[i] : i \in 1..n}
  BY <1>3, <1>7 DEF Surjection
<1>9. \A i, j \in 1..n : o[i] = o[j] => i = j
  BY <1>3, <1>4 DEF IsInjective
<1>10. Len(o) \in Nat /\ S = {o[i] : i \in 1..Len(o)}
  BY <1>1, <1>4, <1>8
<1>11. \A i, j \in 1..Len(o) : o[i] = o[j] => i = j
  BY <1>4, <1>9
<1> QED
  <2>1. Lists(o, S)
    BY <1>10, <1>11, Zenon DEF Lists
  <2>2. o = SetToSeq(S)
    BY <1>3
  <2> QED
    BY <2>1, <2>2

-----------------------------------------------------------------------------
(* The drivers of a leaf *)

LEMMA TreeFacts ==
  ASSUME SoundTree
  PROVE  /\ Rooted(divided)
         /\ \A n \in Nodes : points[n] \subseteq Drivers
         /\ \A d \in Drivers : driverMap[d] # None =>
                /\ driverMap[d] \in Places /\ driverLeaves[d] \in Nodes
                /\ driverLeaves[d] \notin divided /\ Above(driverLeaves[d]) \subseteq divided
                /\ InBox(Bounds[driverLeaves[d]], driverMap[d])
         /\ \A d \in Drivers, n \in Nodes : d \in points[n] =>
                driverMap[d] # None /\ driverLeaves[d] = n
         /\ \A d \in Drivers : driverMap[d] # None => d \in points[driverLeaves[d]]
<1>1. PICK t : t = Tree /\ Sound(t)
  BY DEF SoundTree
<1>2. /\ divided = t.divided /\ points = t.points
      /\ driverMap = t.map /\ driverLeaves = t.leaves
  BY <1>1 DEF Tree
<1>3. t \in Trees /\ Rooted(t.divided)
  BY <1>1 DEF Sound
<1>4. /\ \A n \in Nodes : t.points[n] \subseteq Drivers
      /\ \A d \in Drivers : t.map[d] # None => t.map[d] \in Sites
  BY <1>3 DEF Trees
<1>5. \A d \in Drivers : t.map[d] # None => t.map[d] \in Places
  BY <1>4, NoneApart
<1>6. \A d \in Drivers : t.map[d] # None =>
                /\ t.leaves[d] \in Nodes
                /\ t.leaves[d] \notin t.divided /\ Above(t.leaves[d]) \subseteq t.divided
                /\ InBox(Bounds[t.leaves[d]], t.map[d])
  BY <1>1 DEF Sound, LeavesOf
<1>7. \A d \in Drivers, n \in Nodes : d \in t.points[n] => t.map[d] # None /\ t.leaves[d] = n
  BY <1>1, NoneApart DEF Sound
<1>8. \A d \in Drivers : t.map[d] # None => d \in t.points[t.leaves[d]]
  BY <1>1, <1>6 DEF Sound
<1> QED
  BY <1>2, <1>3, <1>4, <1>5, <1>6, <1>7, <1>8

\* The drivers that are asked for, and how far they are.
Far(q, d) == Distance(q, driverMap[d])
Within(q, radius) == {d \in Drivers : driverMap[d] # None /\ Far(q, d) <= radius}

\* The candidates are such drivers.
Scored(c, q, radius) ==
    \A i \in 1..Len(c) : c[i].id \in Within(q, radius) /\ c[i].distance = Far(q, c[i].id)

\* A driver is a candidate, or k candidates are no farther.
Kept(r, k, q, d) == d \in Ids(r) \/ Beaten(r, k, Far(q, d))

\* r is what becomes of the candidates c when the drivers in D are weighed.
Weighs(r, c, D, q, k, radius) ==
    /\ Ranked(r, k) /\ Scored(r, q, radius) /\ Ids(r) \subseteq Ids(c) \cup D
    /\ \A d \in Ids(c) \cup (D \cap Within(q, radius)) : Kept(r, k, q, d)
    /\ \A x \in Int : Beaten(c, k, x) => Beaten(r, k, x)

LEMMA WeighedTyped ==
  ASSUME SoundTree, NEW q \in Places, NEW k \in Nat, NEW radius \in Int,
         NEW d \in Drivers, driverMap[d] # None, NEW c \in Seq(Candidate)
  PROVE  /\ Weighed(c, d, q, k, radius) \in Seq(Candidate)
         /\ [id |-> d, distance |-> Far(q, d)] \in Candidate
<1>1. Far(q, d) \in Int
  BY TreeFacts, DistanceTyped DEF Far
<1>2. [id |-> d, distance |-> Far(q, d)] \in Candidate
  BY <1>1 DEF Candidate
<1> QED
  BY <1>2, InsertTyped DEF Weighed, Far

LEMMA WeighedIs ==
  ASSUME SoundTree, NEW q \in Places, NEW k \in Nat, k > 0, NEW radius \in Int,
         NEW d \in Drivers, driverMap[d] # None,
         NEW c, Scored(c, q, radius), NEW D, NEW r,
         Weighs(r, c, D, q, k, radius), d \notin Ids(c) \cup D
  PROVE  Weighs(Weighed(r, d, q, k, radius), c, D \cup {d}, q, k, radius)
<1>1. /\ Ranked(r, k) /\ Scored(r, q, radius) /\ Ids(r) \subseteq Ids(c) \cup D
      /\ \A e \in Ids(c) \cup (D \cap Within(q, radius)) : Kept(r, k, q, e)
      /\ \A x \in Int : Beaten(c, k, x) => Beaten(r, k, x)
  BY DEF Weighs
<1>2. CASE ~(Far(q, d) <= radius)
  <2>1. Weighed(r, d, q, k, radius) = r
    BY <1>2 DEF Weighed, Far
  <2>2. (D \cup {d}) \cap Within(q, radius) \subseteq D \cap Within(q, radius)
    BY <1>2 DEF Within
  <2>3. Ids(r) \subseteq Ids(c) \cup (D \cup {d})
    BY <1>1
  <2> QED
    BY <1>1, <2>1, <2>2, <2>3 DEF Weighs
<1>3. CASE Far(q, d) <= radius
  <2>1. PICK e \in Candidate : e = [id |-> d, distance |-> Far(q, d)]
    BY <1>1, WeighedTyped DEF Ranked
  <2>2. e.id = d /\ e.distance = Far(q, d) /\ Far(q, d) \in Int
    <3>1. e.distance \in Int
      BY DEF Candidate
    <3> QED
      BY <2>1, <3>1
  <2>3. d \in Within(q, radius)
    BY <1>3 DEF Within
  <2>4. PICK s : s = InsertSorted(r, e, k) /\ s = Weighed(r, d, q, k, radius)
    BY <1>3, <2>1 DEF Weighed, Far
  <2>5. e.id \notin Ids(r)
    BY <1>1, <2>2
  <2>6. Inserts(s, r, e, k)
    BY <1>1, <2>4, <2>5, InsertSortedIs
  <2>7. /\ Ranked(s, k) /\ Range(s) \subseteq Range(r) \cup {e}
        /\ \A x \in Range(r) \cup {e} : x \in Range(s) \/ Beaten(s, k, x.distance)
        /\ \A x \in Int : Beaten(r, k, x) => Beaten(s, k, x)
    BY <2>6 DEF Inserts
  <2>8. DOMAIN s = 1..Len(s) /\ DOMAIN r = 1..Len(r)
    BY <1>1, <2>7 DEF Ranked
  <2>9. Ids(s) = {x.id : x \in Range(s)} /\ Ids(r) = {x.id : x \in Range(r)}
    BY <2>8 DEF Ids, Range
  <2>10. \A x \in Range(r) : x.id \in Within(q, radius) /\ x.distance = Far(q, x.id)
    BY <1>1, <2>8 DEF Scored, Range
  <2>11. Scored(s, q, radius)
    <3>1. \A x \in Range(s) : x.id \in Within(q, radius) /\ x.distance = Far(q, x.id)
      BY <2>2, <2>3, <2>7, <2>10
    <3> QED
      BY <2>8, <3>1 DEF Scored, Range
  <2>12. Ids(s) \subseteq Ids(r) \cup {d}
    BY <2>2, <2>7, <2>9
  <2>13. ASSUME NEW f \in Ids(r) \cup {d} PROVE Kept(s, k, q, f)
    <3>1. PICK x \in Range(r) \cup {e} : x.id = f
      BY <2>2, <2>9
    <3>2. x.distance = Far(q, f)
      BY <2>2, <2>10, <3>1
    <3> QED
      BY <2>7, <2>9, <3>1, <3>2 DEF Kept
  <2>14. ASSUME NEW f \in Ids(c) \cup ((D \cup {d}) \cap Within(q, radius))
         PROVE  Kept(s, k, q, f)
    <3>1. CASE f \in Ids(r) \cup {d}
      BY <2>13, <3>1
    <3>2. CASE f \notin Ids(r) \cup {d}
      <4>1. Beaten(r, k, Far(q, f))
        BY <1>1, <2>14, <3>2 DEF Kept
      <4>2. Far(q, f) \in Int
        <5>1. f \in Within(q, radius)
          BY <2>14 DEF Scored, Ids
        <5>2. f \in Drivers /\ driverMap[f] # None
          BY <5>1 DEF Within
        <5> QED
          BY <5>2, TreeFacts, DistanceTyped DEF Far
      <4> QED
        BY <2>7, <4>1, <4>2 DEF Kept
    <3> QED
      BY <3>1, <3>2
  <2>15. Ids(s) \subseteq Ids(c) \cup (D \cup {d})
    BY <1>1, <2>12
  <2> QED
    BY <1>1, <2>4, <2>7, <2>11, <2>14, <2>15 DEF Weighs
<1> QED
  BY <1>2, <1>3

LEMMA EvaluateIs ==
  ASSUME SoundTree, NEW q \in Places, NEW k \in Nat, k > 0, NEW radius \in Int,
         NEW n \in Nodes, NEW c, Ranked(c, k), Scored(c, q, radius),
         points[n] \cap Ids(c) = {}
  PROVE  Weighs(Evaluate(c, n, q, k, radius), c, points[n], q, k, radius)
<1>1. PICK o : o = SetToSeq(points[n]) /\ Lists(o, points[n])
  <2>1. IsFiniteSet(points[n])
    BY TreeFacts, FewDrivers, FS_Subset
  <2> QED
    BY <2>1, OrderIs
<1>2. PICK N \in Nat : N = Len(o)
  BY <1>1 DEF Lists
<1>3. /\ points[n] = {o[i] : i \in 1..N}
      /\ \A i, j \in 1..N : o[i] = o[j] => i = j
  BY <1>1, <1>2 DEF Lists
<1>4. \A i \in 1..N : o[i] \in Drivers /\ driverMap[o[i]] # None /\ o[i] \notin Ids(c)
  BY <1>3, TreeFacts
<1> DEFINE S == Seq(Candidate)
           f == [i \in 1..N |-> [r \in S |-> Weighed(r, o[i], q, k, radius)]]
           Done(i) == {o[j] : j \in 1..i}
           J == [i \in 0..N |-> {r \in S : Weighs(r, c, Done(i), q, k, radius)}]
<1>5. c \in S
  BY DEF Ranked
<1>6. f \in [1..N -> [S -> S]]
  <2>1. ASSUME NEW i \in 1..N, NEW r \in S PROVE Weighed(r, o[i], q, k, radius) \in S
    BY <1>4, WeighedTyped
  <2> HIDE DEF S
  <2> QED
    BY <2>1
<1>7. PICK g \in [0..N -> S] : Looped(g, N, c, f)
  <2> HIDE DEF f, J, S
  <2> QED
    BY <1>5, <1>6, LoopRuns
<1> HIDE DEF S
<1>8. g = [i \in 0..N |-> IF i = 0 THEN c ELSE Weighed(g[i - 1], o[i], q, k, radius)]
  <2>1. ASSUME NEW i \in 0..N, i # 0
        PROVE  f[i][g[i - 1]] = Weighed(g[i - 1], o[i], q, k, radius)
    <3>1. i \in 1..N /\ i - 1 \in 0..N
      BY <2>1
    <3> QED
      BY <1>7, <3>1
  <2> QED
    BY <1>7, <2>1 DEF Looped
<1>9. PICK run : /\ run = [i \in 0..N |->
                            IF i = 0 THEN c ELSE Weighed(run[i - 1], o[i], q, k, radius)]
                 /\ Evaluate(c, n, q, k, radius) = run[N]
  BY <1>1, <1>2, <1>8 DEF Evaluate
<1> HIDE DEF f
<1>10. run[0] \in J[0]
  <2>1. run[0] = c
    BY <1>9
  <2>2. Done(0) = {}
    OBVIOUS
  <2>3. Weighs(c, c, {}, q, k, radius)
    BY DEF Weighs, Kept
  <2>4. Weighs(run[0], c, Done(0), q, k, radius) /\ run[0] \in S
    BY <1>5, <2>1, <2>2, <2>3
  <2> HIDE DEF Done
  <2>5. 0 \in 0..N
    OBVIOUS
  <2> QED
    BY <2>4, <2>5
<1>11. ASSUME NEW i \in 1..N, run[i - 1] \in J[i - 1]
       PROVE  run[i] \in J[i]
  <2>1. i - 1 \in 0..N /\ i \in 0..N /\ i # 0
    OBVIOUS
  <2>2. run[i] = Weighed(run[i - 1], o[i], q, k, radius)
    BY <1>9, <2>1
  <2>3. PICK r \in S : r = run[i - 1] /\ Weighs(r, c, Done(i - 1), q, k, radius)
    BY <1>11, <2>1
  <2>4. Done(i) = Done(i - 1) \cup {o[i]}
    <3>1. 1..i = 1..(i - 1) \cup {i}
      OBVIOUS
    <3> QED
      BY <3>1
  <2>5. o[i] \notin Ids(c) \cup Done(i - 1)
    <3>1. ASSUME NEW j \in 1..(i - 1) PROVE o[i] # o[j]
      <4>1. j \in 1..N /\ i # j
        OBVIOUS
      <4> QED
        BY <1>3, <4>1
    <3> QED
      BY <1>4, <3>1
  <2> HIDE DEF Done
  <2>6. Weighs(run[i], c, Done(i), q, k, radius)
    BY <1>4, <2>2, <2>3, <2>4, <2>5, WeighedIs
  <2>7. run[i] \in S
    BY <2>6 DEF Weighs, Ranked, S
  <2> QED
    BY <2>1, <2>6, <2>7
<1>12. \A i \in 0..N : run[i] \in J[i]
  <2> HIDE DEF J
  <2> QED
    BY <1>10, <1>11, LoopKeeps
<1>13. Weighs(run[N], c, Done(N), q, k, radius)
  BY <1>12
<1> QED
  BY <1>3, <1>9, <1>13

-----------------------------------------------------------------------------
(* The search *)

\* The nodes through which a driver can be reached.
WayTo(d) == Above(driverLeaves[d]) \cup {driverLeaves[d]}

\* The nodes in V have been visited.  What the queue holds lies just below them, and a
\* driver that is asked for is a candidate, or beaten, or below a node of the queue.
Searching(s, V, q, k, radius) ==
    /\ s \in [pq : Seq(Entries(q)), candidates : Seq(Candidate)]
    /\ Queue(s.pq, q)
    /\ V \subseteq Nodes /\ \A n \in V : Above(n) \subseteq V
    /\ NodesOf(s.pq) \cap V = {}
    /\ \A n \in NodesOf(s.pq) : Above(n) \subseteq V \cap divided
    /\ Ranked(s.candidates, k) /\ Scored(s.candidates, q, radius)
    /\ \A d \in Ids(s.candidates) : driverLeaves[d] \in V
    /\ \A d \in Within(q, radius) :
            \/ Kept(s.candidates, k, q, d)
            \/ \E n \in NodesOf(s.pq) : n \in WayTo(d)

\* A driver below a node is no nearer than the node.
LEMMA BelowIsFar ==
  ASSUME SoundTree, NEW q \in Places, NEW d \in Drivers, driverMap[d] # None,
         NEW n \in WayTo(d)
  PROVE  n \in Nodes /\ MinDistanceToBox(q, Bounds[n]) <= Far(q, d)
<1>1. PICK l \in Nodes : l = driverLeaves[d] /\ InBox(Bounds[l], driverMap[d])
  BY TreeFacts
<1>2. driverMap[d] \in Places
  BY TreeFacts
<1>3. n \in Nodes
  BY <1>1, BelowAbove DEF WayTo
<1>4. InBox(Bounds[n], driverMap[d])
  BY <1>1, <1>2, BoxesNest DEF WayTo
<1> QED
  BY <1>2, <1>3, <1>4, BoxTyped, BoxIsNear DEF Far

\* Below a divided node, the way goes on with one of its children.
LEMMA WayGoesOn ==
  ASSUME SoundTree, NEW d \in Drivers, driverMap[d] # None,
         NEW n \in WayTo(d), n \in divided
  PROVE  \E m \in ChildrenOf(n) : m \in WayTo(d)
<1>1. PICK l \in Nodes : l = driverLeaves[d] /\ l \notin divided
  BY TreeFacts
<1>2. n \in Nodes /\ Over(n, l)
  BY <1>1, AboveIs DEF WayTo
<1>3. n \in Seq(Quadrants) /\ l \in Seq(Quadrants) /\ Len(n) \in Nat /\ Len(l) \in Nat /\ Len(l) <= MaxDepth
  BY <1>2, NodeShape
<1>4. PICK j \in Nat : j = Len(n) + 1
  BY <1>3
<1>5. j \in 1..Len(l) /\ \A i \in 1..Len(n) : n[i] = l[i]
  BY <1>2, <1>3, <1>4 DEF Over
<1>6. Len(n) < MaxDepth /\ l[j] \in Quadrants
  BY <1>3, <1>4, <1>5, Depth
<1>7. PICK m : m = Append(n, l[j])
  OBVIOUS
<1>8. m \in Nodes /\ Len(m) = j /\ m \in ChildrenOf(n)
  BY <1>2, <1>4, <1>6, <1>7, ChildNode DEF ChildrenOf
<1>9. \A i \in 1..j : m[i] = l[i]
  BY <1>3, <1>4, <1>5, <1>7
<1>10. CASE j = Len(l)
  <2>1. m = l
    BY <1>8, <1>9, <1>10, SamePath
  <2> QED
    BY <1>1, <1>8, <2>1 DEF WayTo
<1>11. CASE j # Len(l)
  <2>1. Over(m, l)
    BY <1>3, <1>5, <1>8, <1>9, <1>11 DEF Over
  <2> QED
    BY <1>1, <1>8, <2>1, AboveIs DEF WayTo
<1> QED
  BY <1>10, <1>11

\* The node at the head of the queue is visited.
LEMMA VisitIs ==
  ASSUME SoundTree, NEW q \in Places, NEW k \in Nat, k > 0, NEW radius \in Int,
         NEW s, NEW V, Searching(s, V, q, k, radius), s.pq # <<>>
  PROVE  \E n \in Nodes \ V : Searching(Visit(s, q, k, radius), V \cup {n}, q, k, radius)
<1>1. PICK h, c : h = s.pq /\ c = s.candidates
  OBVIOUS
<1>2. /\ h \in Seq(Entries(q)) /\ c \in Seq(Candidate) /\ s = [pq |-> h, candidates |-> c]
      /\ Queue(h, q) /\ h # <<>>
      /\ V \subseteq Nodes /\ \A m \in V : Above(m) \subseteq V
      /\ NodesOf(h) \cap V = {}
      /\ \A m \in NodesOf(h) : Above(m) \subseteq V \cap divided
      /\ Ranked(c, k) /\ Scored(c, q, radius)
      /\ \A d \in Ids(c) : driverLeaves[d] \in V
      /\ \A d \in Within(q, radius) :
              Kept(c, k, q, d) \/ \E m \in NodesOf(h) : m \in WayTo(d)
  <2>1. s \in [pq : Seq(Entries(q)), candidates : Seq(Candidate)]
    BY DEF Searching
  <2>2. h \in Seq(Entries(q)) /\ c \in Seq(Candidate) /\ s = [pq |-> h, candidates |-> c]
    BY <1>1, <2>1
  <2> QED
    BY <1>1, <2>2, Zenon DEF Searching
<1>3. PICK e, rest : e = Heap!Peek(h) /\ rest = Heap!Popped(h)
  OBVIOUS
<1>4. /\ Queue(rest, q) /\ Range(rest) = Range(h) \ {e} /\ e \in Range(h)
      /\ rest \in Seq(Entries(q))
  BY <1>2, <1>3, EntryIs, PoppedIs DEF Queue
<1>5. PICK n \in Nodes : /\ n = e.node /\ e = Entry(q, n)
                         /\ e.minDist = MinDistanceToBox(q, Bounds[n]) /\ e.minDist \in Int
  <2>1. e \in Entries(q)
    BY <1>2, <1>4, QueueNodes
  <2> QED
    BY <2>1, EntryIs
<1>6. /\ n \in NodesOf(h) /\ n \notin V /\ Above(n) \subseteq V \cap divided
      /\ NodesOf(rest) = NodesOf(h) \ {n}
  <2>1. n \in NodesOf(h)
    BY <1>4, <1>5 DEF NodesOf
  <2>2. NodesOf(rest) \subseteq Nodes /\ NodesOf(h) \subseteq Nodes
    BY <1>2, <1>4, QueueNodes
  <2>3. \A m \in Nodes : m \in NodesOf(rest) <=> Entry(q, m) \in Range(h) \ {e}
    BY <1>4, QueueNodes
  <2>4. \A m \in Nodes : m \in NodesOf(h) <=> Entry(q, m) \in Range(h)
    BY <1>2, QueueNodes
  <2>5. \A m \in Nodes : Entry(q, m) = e <=> m = n
    BY <1>5, EntryIs
  <2>6. NodesOf(rest) = NodesOf(h) \ {n}
    BY <2>2, <2>3, <2>4, <2>5
  <2> QED
    BY <1>2, <2>1, <2>6
<1>7. PICK W : W = V \cup {n}
  OBVIOUS
<1>8. /\ W \subseteq Nodes /\ \A m \in W : Above(m) \subseteq W
      /\ NodesOf(rest) \cap W = {} /\ \A m \in NodesOf(rest) : Above(m) \subseteq W \cap divided
      /\ \A d \in Ids(c) : driverLeaves[d] \in W
  BY <1>2, <1>6, <1>7
<1>9. \A d \in Within(q, radius) : d \in Drivers /\ driverMap[d] # None /\ Far(q, d) <= radius
                                  /\ Far(q, d) \in Int
  BY TreeFacts, DistanceTyped DEF Within, Far
<1>10. \A d \in Within(q, radius) :
          Kept(c, k, q, d) \/ n \in WayTo(d) \/ \E m \in NodesOf(rest) : m \in WayTo(d)
  BY <1>2, <1>6
<1>11. PICK z : z = Visit(s, q, k, radius)
  OBVIOUS
<1>12. z = IF Len(c) >= k /\ e.minDist >= c[k].distance THEN [s EXCEPT !.pq = <<>>]
           ELSE IF e.minDist > radius THEN [s EXCEPT !.pq = rest]
           ELSE IF n \in divided THEN [s EXCEPT !.pq = Expand(rest, n, q, radius)]
           ELSE [pq |-> rest, candidates |-> Evaluate(c, n, q, k, radius)]
  BY <1>1, <1>2, <1>3, <1>5, <1>11 DEF Visit
<1>13. ASSUME NEW p, NEW r, z = [pq |-> p, candidates |-> r],
              Queue(p, q), NodesOf(p) \cap W = {},
              \A m \in NodesOf(p) : Above(m) \subseteq W \cap divided,
              Ranked(r, k), Scored(r, q, radius), \A d \in Ids(r) : driverLeaves[d] \in W,
              \A d \in Within(q, radius) :
                  Kept(r, k, q, d) \/ \E m \in NodesOf(p) : m \in WayTo(d)
       PROVE  Searching(z, W, q, k, radius)
  <2>1. z.pq = p /\ z.candidates = r /\ z \in [pq : Seq(Entries(q)), candidates : Seq(Candidate)]
    BY <1>13 DEF Queue, Ranked
  <2> QED
    BY <1>8, <1>13, <2>1, Zenon DEF Searching
<1>14. CASE Len(c) >= k /\ e.minDist >= c[k].distance
  <2>1. z = [pq |-> <<>>, candidates |-> c]
    BY <1>2, <1>12, <1>14
  <2>2. Queue(<<>>, q) /\ NodesOf(<<>>) = {}
    BY DEF Queue, Ordered, Distinct, NodesOf, Range
  <2>3. Len(c) = k /\ c[k].distance \in Int
    <3>1. c \in Seq(Candidate) /\ Len(c) = k
      BY <1>2, <1>14 DEF Ranked
    <3>2. c[k] \in Candidate
      BY <3>1
    <3> QED
      BY <3>1, <3>2 DEF Candidate
  <2>4. ASSUME NEW d \in Within(q, radius), ~Kept(c, k, q, d) PROVE FALSE
    <3>1. PICK m \in NodesOf(h) : m \in WayTo(d)
      BY <1>2, <2>4
    <3>2. m \in Nodes /\ MinDistanceToBox(q, Bounds[m]) <= Far(q, d)
      BY <1>9, <3>1, BelowIsFar
    <3>3. Entry(q, m) \in Range(h) /\ Entry(q, m).minDist = MinDistanceToBox(q, Bounds[m])
          /\ Entry(q, m).minDist \in Int
      BY <1>2, <3>1, <3>2, QueueNodes, EntryIs
    <3>4. PICK i \in 1..Len(h) : h[i] = Entry(q, m)
      BY <1>2, <3>3 DEF Range
    <3>5. h[1].minDist <= h[i].minDist /\ h[1] = e
      BY <1>2, <1>3, EntryIs, FirstIsLeast DEF Queue, Heap!Peek
    <3>6. c[k].distance <= Far(q, d)
      <4>1. PICK x, y, u, v : /\ x = MinDistanceToBox(q, Bounds[m]) /\ y = Far(q, d)
                              /\ u = e.minDist /\ v = c[k].distance
        OBVIOUS
      <4>2. x \in Int /\ y \in Int /\ u \in Int /\ v \in Int
        BY <1>5, <1>9, <2>3, <3>3, <4>1
      <4>3. v <= u /\ u <= x /\ x <= y
        <5>1. v <= u
          BY <1>14, <4>1, <4>2
        <5>2. u <= x
          BY <3>3, <3>4, <3>5, <4>1
        <5>3. x <= y
          BY <3>2, <4>1
        <5> QED
          BY <5>1, <5>2, <5>3
      <4>4. v <= y
        BY <4>2, <4>3
      <4> QED
        BY <4>1, <4>4
    <3> QED
      BY <2>3, <2>4, <3>6 DEF Kept, Beaten
  <2>5. Searching(z, W, q, k, radius)
    BY <1>2, <1>8, <1>13, <2>1, <2>2, <2>4
  <2> QED
    BY <1>6, <1>7, <1>11, <2>5
<1>15. CASE ~(Len(c) >= k /\ e.minDist >= c[k].distance) /\ e.minDist > radius
  <2>1. z = [pq |-> rest, candidates |-> c]
    BY <1>2, <1>12, <1>15
  <2>2. ASSUME NEW d \in Within(q, radius), n \in WayTo(d) PROVE FALSE
    <3>1. MinDistanceToBox(q, Bounds[n]) <= Far(q, d)
      BY <1>9, <2>2, BelowIsFar
    <3>2. PICK x, y : x = MinDistanceToBox(q, Bounds[n]) /\ y = Far(q, d)
      OBVIOUS
    <3>3. x \in Int /\ y \in Int /\ x <= y
      BY <1>5, <1>9, <3>1, <3>2
    <3>4. y <= radius /\ x > radius
      BY <1>5, <1>9, <1>15, <3>2
    <3> QED
      BY <3>3, <3>4
  <2>3. Searching(z, W, q, k, radius)
    BY <1>2, <1>4, <1>8, <1>10, <1>13, <2>1, <2>2
  <2> QED
    BY <1>6, <1>7, <1>11, <2>3
<1>16. CASE ~(Len(c) >= k /\ e.minDist >= c[k].distance) /\ ~(e.minDist > radius) /\ n \in divided
  <2>1. PICK p : p = Expand(rest, n, q, radius)
    OBVIOUS
  <2>2. z = [pq |-> p, candidates |-> c]
    BY <1>2, <1>12, <1>16, <2>1
  <2>3. Len(n) < MaxDepth
    BY <1>16, TreeFacts DEF Rooted
  <2>4. ASSUME NEW m \in ChildrenOf(n) PROVE m \in Nodes /\ Above(m) = Above(n) \cup {n}
    BY <2>3, ChildNode DEF ChildrenOf
  <2>5. ASSUME NEW m \in ChildrenOf(n) PROVE m \notin W /\ m \notin NodesOf(rest)
    <3>1. m # n
      BY <2>4, BelowAbove
    <3>2. m \notin V
      BY <1>2, <1>6, <2>4
    <3>3. m \notin NodesOf(rest)
      BY <1>2, <1>6, <2>4
    <3> QED
      BY <1>7, <3>1, <3>2, <3>3
  <2>6. Queue(p, q) /\ NodesOf(p) = NodesOf(rest) \cup Near(q, radius, ChildrenOf(n))
    <3>1. ChildrenOf(n) \cap NodesOf(rest) = {}
      BY <2>5
    <3> QED
      BY <1>4, <2>1, <2>3, <3>1, ExpandIs
  <2>7. NodesOf(p) \cap W = {} /\ \A m \in NodesOf(p) : Above(m) \subseteq W \cap divided
    BY <1>6, <1>7, <1>8, <1>16, <2>4, <2>5, <2>6 DEF Near
  <2>8. ASSUME NEW d \in Within(q, radius), n \in WayTo(d)
        PROVE  \E m \in NodesOf(p) : m \in WayTo(d)
    <3>1. PICK m \in ChildrenOf(n) : m \in WayTo(d)
      BY <1>9, <1>16, <2>8, WayGoesOn
    <3>2. m \in Nodes /\ MinDistanceToBox(q, Bounds[m]) <= Far(q, d)
      BY <1>9, <3>1, BelowIsFar
    <3>3. MinDistanceToBox(q, Bounds[m]) \in Int
      BY <3>2, EntryIs
    <3>4. MinDistanceToBox(q, Bounds[m]) <= radius
      BY <1>9, <3>2, <3>3
    <3> QED
      BY <2>6, <3>1, <3>4 DEF Near
  <2>9. ASSUME NEW d \in Within(q, radius)
        PROVE  Kept(c, k, q, d) \/ \E m \in NodesOf(p) : m \in WayTo(d)
    BY <1>10, <2>6, <2>8
  <2>10. Searching(z, W, q, k, radius)
    BY <1>2, <1>8, <1>13, <2>2, <2>6, <2>7, <2>9
  <2> QED
    BY <1>6, <1>7, <1>11, <2>10
<1>17. CASE ~(Len(c) >= k /\ e.minDist >= c[k].distance) /\ ~(e.minDist > radius) /\ n \notin divided
  <2>1. PICK r : r = Evaluate(c, n, q, k, radius)
    OBVIOUS
  <2>2. z = [pq |-> rest, candidates |-> r]
    BY <1>12, <1>17, <2>1
  <2>3. points[n] \cap Ids(c) = {}
    <3>1. \A d \in points[n] : driverLeaves[d] = n
      BY TreeFacts
    <3> QED
      BY <1>2, <1>6, <3>1
  <2>4. Weighs(r, c, points[n], q, k, radius)
    BY <1>2, <2>1, <2>3, EvaluateIs
  <2>5. /\ Ranked(r, k) /\ Scored(r, q, radius) /\ Ids(r) \subseteq Ids(c) \cup points[n]
        /\ \A d \in Ids(c) \cup (points[n] \cap Within(q, radius)) : Kept(r, k, q, d)
        /\ \A x \in Int : Beaten(c, k, x) => Beaten(r, k, x)
    BY <2>4 DEF Weighs
  <2>6. \A d \in Ids(r) : driverLeaves[d] \in W
    <3>1. \A d \in points[n] : driverLeaves[d] = n
      BY TreeFacts
    <3> QED
      BY <1>7, <1>8, <2>5, <3>1
  <2>7. ASSUME NEW d \in Within(q, radius)
        PROVE  Kept(r, k, q, d) \/ \E m \in NodesOf(rest) : m \in WayTo(d)
    <3>1. CASE Kept(c, k, q, d)
      BY <1>9, <2>5, <3>1 DEF Kept
    <3>2. CASE n \in WayTo(d)
      <4>1. n = driverLeaves[d]
        BY <1>9, <1>17, <3>2, TreeFacts DEF WayTo
      <4>2. d \in points[n]
        BY <1>9, <4>1, TreeFacts
      <4> QED
        BY <2>5, <4>2
    <3> QED
      BY <1>10, <3>1, <3>2
  <2>8. Searching(z, W, q, k, radius)
    BY <1>4, <1>8, <1>13, <2>2, <2>5, <2>6, <2>7
  <2> QED
    BY <1>6, <1>7, <1>11, <2>8
<1> QED
  BY <1>14, <1>15, <1>16, <1>17

StartOf(q) ==
    [pq |-> <<[node |-> Root, minDist |-> MinDistanceToBox(q, Bounds[Root])]>>,
     candidates |-> <<>>]

LEMMA StartIs ==
  ASSUME SoundTree, NEW q \in Places, NEW k \in Nat, k > 0, NEW radius \in Int
  PROVE  Searching(StartOf(q), {}, q, k, radius)
<1>1. PICK e \in Entries(q) : e = Entry(q, Root) /\ e.node = Root
  BY EntryIs, RootNode
<1>2. PICK h : h = <<e>>
  OBVIOUS
<1>3. StartOf(q) = [pq |-> h, candidates |-> <<>>]
  BY <1>1, <1>2 DEF StartOf, Entry
<1>4. h \in Seq(Entries(q)) /\ Len(h) = 1 /\ h[1] = e /\ DOMAIN h = 1..1
  BY <1>2
<1>5. Queue(h, q) /\ NodesOf(h) = {Root}
  <2>1. Range(h) = {e}
    BY <1>4 DEF Range
  <2> QED
    BY <1>1, <1>4, <2>1 DEF Queue, Ordered, Distinct, NodesOf
<1>6. PICK s : s = StartOf(q)
  OBVIOUS
<1>7. /\ s.pq = h /\ s.candidates = <<>>
      /\ s \in [pq : Seq(Entries(q)), candidates : Seq(Candidate)]
  BY <1>3, <1>4, <1>6
<1>8. Ranked(<<>>, k) /\ Scored(<<>>, q, radius) /\ Ids(<<>>) = {}
  BY DEF Ranked, Scored, Ids
<1>9. \A d \in Within(q, radius) : Root \in WayTo(d)
  BY TreeFacts, RootOverAll DEF Within, WayTo
<1>10. Searching(s, {}, q, k, radius)
  BY <1>5, <1>7, <1>8, <1>9, RootNode DEF Searching
<1> QED
  BY <1>6, <1>10

\* When the loop has ended the queue is empty.
Found(c, q, k, radius) ==
    /\ Ranked(c, k) /\ Scored(c, q, radius)
    /\ \A d \in Within(q, radius) : Kept(c, k, q, d)

LEMMA SearchIs ==
  ASSUME SoundTree, NEW q \in Places, NEW k \in Nat, k > 0, NEW radius \in Int
  PROVE  Found(KNearestNeighbors(q, k, radius), q, k, radius)
<1>1. PICK N \in Nat : N = Cardinality(Nodes)
  BY FewNodes, FS_CardinalityType
<1> DEFINE Sought(s, V) == Searching(s, V, q, k, radius)
           S == {s \in [pq : Seq(Entries(q)), candidates : Seq(Candidate)] :
                    \E V \in SUBSET Nodes : Sought(s, V)}
           f == [n \in 1..N |-> [s \in S |-> Visit(s, q, k, radius)]]
           J == [n \in 0..N |-> {s \in S : s.pq = <<>> \/
                    \E V \in SUBSET Nodes : Sought(s, V) /\ Cardinality(V) = n}]
<1>2. ASSUME NEW s, NEW V, Sought(s, V) PROVE s \in S /\ V \in SUBSET Nodes
  BY <1>2 DEF Searching
<1>3. PICK base : base = StartOf(q) /\ Sought(base, {})
  BY StartIs
<1>4. base \in S
  BY <1>2, <1>3
<1>5. ASSUME NEW s \in S PROVE Visit(s, q, k, radius) \in S
  <2>1. CASE s.pq = <<>>
    BY <1>5, <2>1 DEF Visit
  <2>2. CASE s.pq # <<>>
    <3>1. PICK V \in SUBSET Nodes : Sought(s, V)
      OBVIOUS
    <3>2. PICK n \in Nodes : Sought(Visit(s, q, k, radius), V \cup {n})
      BY <2>2, <3>1, VisitIs
    <3> QED
      BY <1>2, <3>2
  <2> QED
    BY <2>1, <2>2
<1> HIDE DEF S
<1>6. f \in [1..N -> [S -> S]]
  BY <1>5
<1>7. PICK g \in [0..N -> S] : Looped(g, N, base, f)
  <2> HIDE DEF f, J
  <2> QED
    BY <1>4, <1>6, LoopRuns
<1>8. g = [n \in 0..N |-> IF n = 0 THEN base ELSE Visit(g[n - 1], q, k, radius)]
  <2>1. ASSUME NEW n \in 0..N, n # 0 PROVE f[n][g[n - 1]] = Visit(g[n - 1], q, k, radius)
    <3>1. n \in 1..N /\ n - 1 \in 0..N
      BY <2>1
    <3> QED
      BY <1>7, <3>1
  <2> QED
    BY <1>7, <2>1 DEF Looped
<1>9. PICK run : /\ run = [n \in 0..N |-> IF n = 0 THEN base ELSE Visit(run[n - 1], q, k, radius)]
                 /\ KNearestNeighbors(q, k, radius) = run[N].candidates
  <2>1. ~(k <= 0)
    OBVIOUS
  <2> HIDE DEF f, J
  <2> QED
    BY <1>1, <1>3, <1>8, <2>1 DEF KNearestNeighbors, StartOf
<1> HIDE DEF f
<1>10. run[0] \in J[0]
  <2>1. run[0] = base /\ 0 \in 0..N
    BY <1>9
  <2>2. Cardinality({}) = 0 /\ {} \in SUBSET Nodes
    BY FS_EmptySet
  <2> QED
    BY <1>3, <1>4, <2>1, <2>2
<1>11. ASSUME NEW n \in 1..N, run[n - 1] \in J[n - 1]
       PROVE  run[n] \in J[n]
  <2>1. n - 1 \in 0..N /\ n \in 0..N /\ n # 0
    OBVIOUS
  <2>2. run[n] = Visit(run[n - 1], q, k, radius)
    BY <1>9, <2>1
  <2>3. PICK s \in S : /\ s = run[n - 1]
                       /\ (s.pq = <<>> \/ \E V \in SUBSET Nodes : Sought(s, V) /\ Cardinality(V) = n - 1)
    BY <1>11, <2>1
  <2>4. CASE s.pq = <<>>
    <3>1. run[n] = s
      BY <2>2, <2>3, <2>4 DEF Visit
    <3> QED
      BY <2>1, <2>4, <3>1
  <2>5. CASE s.pq # <<>>
    <3>1. PICK V \in SUBSET Nodes : Sought(s, V) /\ Cardinality(V) = n - 1
      BY <2>3, <2>5
    <3>2. PICK m \in Nodes \ V : Sought(run[n], V \cup {m})
      BY <2>2, <2>3, <2>5, <3>1, VisitIs
    <3>3. IsFiniteSet(V)
      BY FewNodes, FS_Subset
    <3>4. Cardinality(V \cup {m}) = Cardinality(V) + 1
      BY <3>2, <3>3, FS_AddElement
    <3>5. Cardinality(V \cup {m}) = n
      BY <3>1, <3>4
    <3>6. run[n] \in S /\ V \cup {m} \in SUBSET Nodes
      BY <1>2, <3>2
    <3> HIDE DEF Sought
    <3> QED
      BY <2>1, <3>2, <3>5, <3>6
  <2> QED
    BY <2>4, <2>5
<1>12. \A n \in 0..N : run[n] \in J[n]
  <2> HIDE DEF J
  <2> QED
    BY <1>10, <1>11, LoopKeeps
<1>13. PICK s \in S : /\ s = run[N]
                      /\ (s.pq = <<>> \/ \E V \in SUBSET Nodes : Sought(s, V) /\ Cardinality(V) = N)
  BY <1>12
<1>14. s.pq = <<>>
  <2> SUFFICES ASSUME s.pq # <<>> PROVE FALSE
    OBVIOUS
  <2>1. PICK V \in SUBSET Nodes : Sought(s, V) /\ Cardinality(V) = N
    BY <1>13
  <2>2. V = Nodes
    BY <1>1, <2>1, FewNodes, FS_Subset
  <2>3. \E m \in Nodes \ V : Sought(Visit(s, q, k, radius), V \cup {m})
    BY <2>1, VisitIs
  <2> QED
    BY <2>2, <2>3
<1>15. PICK V \in SUBSET Nodes : Sought(s, V)
  BY DEF S
<1>16. NodesOf(s.pq) = {}
  BY <1>14 DEF NodesOf, Range
<1>17. Found(s.candidates, q, k, radius)
  BY <1>15, <1>16 DEF Searching, Found
<1> QED
  BY <1>9, <1>13, <1>17

\* A list of distinct drivers has as many as it is long.
LEMMA IdsCount ==
  ASSUME NEW c, NEW k \in Nat, Ranked(c, k)
  PROVE  IsFiniteSet(Ids(c)) /\ Cardinality(Ids(c)) = Len(c)
<1>1. Len(c) \in Nat /\ \A i, j \in 1..Len(c) : c[i].id = c[j].id => i = j
  BY DEF Ranked
<1>2. PICK n \in Nat : n = Len(c)
  BY <1>1
<1> DEFINE f == [i \in 1..n |-> c[i].id]
<1>3. f \in [1..n -> Ids(c)] /\ DOMAIN f = 1..n
  BY <1>2 DEF Ids
<1>4. \A i, j \in 1..n : f[i] = f[j] => i = j
  BY <1>1, <1>2
<1>5. \A d \in Ids(c) : \E i \in 1..n : f[i] = d
  BY <1>2 DEF Ids
<1> HIDE DEF f
<1>6. f \in Injection(1..n, Ids(c)) /\ f \in Surjection(1..n, Ids(c))
  BY <1>3, <1>4, <1>5 DEF Injection, Surjection, IsInjective
<1>7. IsFiniteSet(1..n) /\ Cardinality(1..n) = n
  BY FS_Interval
<1>8. ExistsBijection(1..n, Ids(c))
  BY <1>6 DEF ExistsBijection, Bijection
<1> QED
  BY <1>2, <1>7, <1>8, FS_Bijection

\* What NearestFound asks of a result.
Nearest(result, q, k, radius) ==
    LET ids == {result[i].id : i \in DOMAIN result}
        within == {d \in Drivers : driverMap[d] # None /\ Distance(q, driverMap[d]) <= radius}
    IN  /\ Len(result) = Min({k, Cardinality(within)})
        /\ Cardinality(ids) = Len(result)
        /\ ids \subseteq within
        /\ \A i \in DOMAIN result : result[i].distance = Distance(q, driverMap[result[i].id])
        /\ \A i, j \in DOMAIN result : i < j => result[i].distance <= result[j].distance
        /\ \A d \in within \ ids, i \in DOMAIN result :
                Distance(q, driverMap[d]) >= result[i].distance

LEMMA LeastOfTwo ==
  ASSUME NEW a \in Nat, NEW b \in Nat, a <= b
  PROVE  Min({a, b}) = a /\ Min({b, a}) = a
<1>1. {a, b} \in SUBSET Nat /\ {a, b} # {}
  OBVIOUS
<1>2. Min({a, b}) \in {a, b} /\ \A y \in {a, b} : Min({a, b}) <= y
  BY <1>1, MinIs
<1>3. Min({a, b}) = a
  BY <1>2
<1>4. {a, b} = {b, a}
  OBVIOUS
<1> QED
  BY <1>3, <1>4

LEMMA FoundIsNearest ==
  ASSUME SoundTree, NEW q \in Places, NEW k \in Nat, k > 0, NEW radius \in Int,
         NEW c, Found(c, q, k, radius)
  PROVE  Nearest(c, q, k, radius)
<1>1. /\ c \in Seq(Candidate) /\ Len(c) \in Nat /\ Len(c) <= k /\ DOMAIN c = 1..Len(c)
      /\ \A i, j \in 1..Len(c) : i < j => c[i].distance <= c[j].distance
      /\ \A i \in 1..Len(c) : c[i].id \in Within(q, radius) /\ c[i].distance = Far(q, c[i].id)
      /\ \A d \in Within(q, radius) : d \in Ids(c) \/ (Len(c) = k /\ c[k].distance <= Far(q, d))
  <2>1. c \in Seq(Candidate)
    BY DEF Found, Ranked
  <2>2. Len(c) \in Nat /\ DOMAIN c = 1..Len(c)
    BY <2>1
  <2> QED
    BY <2>1, <2>2 DEF Found, Ranked, Scored, Kept, Beaten
<1>2. IsFiniteSet(Ids(c)) /\ Cardinality(Ids(c)) = Len(c)
  BY IdsCount DEF Found
<1>3. Ids(c) = {c[i].id : i \in DOMAIN c} /\ Ids(c) \subseteq Within(q, radius)
  BY <1>1 DEF Ids
<1>4. IsFiniteSet(Within(q, radius))
  BY FewDrivers, FS_Subset DEF Within
<1>5. /\ Cardinality(Within(q, radius)) \in Nat
      /\ Len(c) <= Cardinality(Within(q, radius))
  BY <1>2, <1>3, <1>4, FS_Subset, FS_CardinalityType
<1>6. Len(c) = Min({k, Cardinality(Within(q, radius))})
  <2>1. CASE Ids(c) = Within(q, radius)
    BY <1>1, <1>2, <1>5, <2>1, LeastOfTwo
  <2>2. CASE Ids(c) # Within(q, radius)
    <3>1. Len(c) = k
      BY <1>1, <1>3, <2>2
    <3> QED
      BY <1>5, <3>1, LeastOfTwo
  <2> QED
    BY <2>1, <2>2
<1>7. \A i \in 1..Len(c) : c[i].distance \in Int
  <2>1. c \in Seq(Candidate)
    BY DEF Found, Ranked
  <2>2. \A i \in 1..Len(c) : c[i] \in Candidate
    BY <2>1
  <2> QED
    BY <2>2 DEF Candidate
<1>8. ASSUME NEW d \in Within(q, radius) \ Ids(c), NEW i \in 1..Len(c)
      PROVE  Far(q, d) >= c[i].distance
  <2>0. d \in Within(q, radius) /\ d \notin Ids(c)
    BY <1>8
  <2>9. \A e \in Within(q, radius) : e \in Ids(c) \/ (Len(c) = k /\ c[k].distance <= Far(q, e))
    BY <1>1
  <2>8. Len(c) = k /\ c[k].distance <= Far(q, d)
    BY <2>0, <2>9
  <2>7. k \in 1..Len(c)
    BY <2>8
  <2>1. Len(c) = k /\ c[k].distance <= Far(q, d) /\ k \in 1..Len(c)
    BY <2>7, <2>8
  <2>2. c[i].distance <= c[k].distance
    BY <1>1, <1>7, <2>1
  <2>3. Far(q, d) \in Int
    BY TreeFacts, DistanceTyped DEF Within, Far
  <2>4. PICK x, y, z : x = c[i].distance /\ y = c[k].distance /\ z = Far(q, d)
    OBVIOUS
  <2>5. x \in Int /\ y \in Int /\ z \in Int /\ x <= y /\ y <= z
    BY <1>7, <2>1, <2>2, <2>3, <2>4
  <2>6. z >= x
    BY <2>5
  <2> QED
    BY <2>4, <2>6
<1>9. Within(q, radius) =
        {d \in Drivers : driverMap[d] # None /\ Distance(q, driverMap[d]) <= radius}
  BY DEF Within, Far
<1>10. \A i \in DOMAIN c : c[i].distance = Distance(q, driverMap[c[i].id])
  BY <1>1 DEF Far
<1>11. \A d \in Within(q, radius) \ Ids(c), i \in DOMAIN c :
          Distance(q, driverMap[d]) >= c[i].distance
  BY <1>1, <1>8 DEF Far
<1>12. \A i, j \in DOMAIN c : i < j => c[i].distance <= c[j].distance
  BY <1>1
<1> QED
  BY <1>2, <1>3, <1>6, <1>9, <1>10, <1>11, <1>12, Zenon DEF Nearest

\* Whatever the tree has been through, the search returns k of the drivers within the
\* radius, or all of them if there are fewer, nearest first, and leaves out none that is
\* nearer than the last: pruning a node by its box loses nobody.
THEOREM NearestFoundHolds == Spec => []NearestFound
<1>1. ASSUME SoundTree PROVE NearestFound
  <2> SUFFICES ASSUME NEW q \in Queries, NEW k \in Ks, NEW radius \in Radii
               PROVE  Nearest(KNearestNeighbors(q, k, radius), q, k, radius)
    BY DEF NearestFound, Nearest
  <2>1. q \in Places /\ k \in Nat /\ radius \in Int
    BY NearestAssumption DEF Places
  <2>2. CASE k > 0
    <3>1. PICK c : c = KNearestNeighbors(q, k, radius)
      OBVIOUS
    <3>2. Found(c, q, k, radius)
      BY <1>1, <2>1, <2>2, <3>1, SearchIs
    <3>3. Nearest(c, q, k, radius)
      BY <1>1, <2>1, <2>2, <3>2, FoundIsNearest
    <3> QED
      BY <3>1, <3>3
  <2>3. CASE k = 0
    <3>1. KNearestNeighbors(q, k, radius) = <<>>
      BY <2>3 DEF KNearestNeighbors
    <3>2. PICK W : W = {d \in Drivers : driverMap[d] # None /\ Distance(q, driverMap[d]) <= radius}
      OBVIOUS
    <3>3. Cardinality(W) \in Nat
      BY <3>2, FewDrivers, FS_Subset, FS_CardinalityType
    <3>4. Min({k, Cardinality(W)}) = 0
      BY <2>3, <3>3, LeastOfTwo
    <3>5. Len(<<>>) = 0 /\ DOMAIN <<>> = {} /\ Cardinality({}) = 0
      BY FS_EmptySet
    <3> QED
      BY <3>1, <3>2, <3>4, <3>5 DEF Nearest
  <2> QED
    BY <2>1, <2>2, <2>3
<1> QED
  BY <1>1, TreeInvariant, PTL
=============================================================================

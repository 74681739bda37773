------------------------------ MODULE QuadTree ------------------------------
(***************************************************************************)
(* The index of available drivers: QuadTree of src/spatial/quadtree.ts.    *)
(*                                                                         *)
(* A node is the path of quadrants that leads to it from the root; a place *)
(* is a pair of integers on a grid that the splits divide evenly.  Every   *)
(* operation is synchronous, so it is one action.  The recursion of a      *)
(* split along the new point, and of a collapse towards the root, is given *)
(* by where it stops.                                                      *)
(***************************************************************************)
EXTENDS Integers, Sequences, FiniteSets, SequencesExt, FiniteSetsExt

CONSTANTS
    Drivers,        \* driver ids
    Sites,          \* places <<lat, lng>> that are written and asked for
    Capacity,       \* points a leaf holds before it splits
    MaxDepth,       \* depth below which leaves do not split
    Side,           \* latitude and longitude of the region run from 0 to Side
    None            \* no place, no leaf

VARIABLES
    divided,        \* the nodes with four children
    points,         \* QuadTreeNode.points: the drivers in every node
    driverMap,      \* QuadTree.driverMap: a driver's place, or None
    driverLeaves    \* QuadTree.driverLeaves: a driver's cached leaf, or None

vars == <<divided, points, driverMap, driverLeaves>>

\* The tree as a value, for operations made of others.
Tree == [divided |-> divided, points |-> points, map |-> driverMap, leaves |-> driverLeaves]
Becomes(t) ==
    /\ divided' = t.divided
    /\ points' = t.points
    /\ driverMap' = t.map
    /\ driverLeaves' = t.leaves

-----------------------------------------------------------------------------
(* Nodes and their boxes *)

Quadrants == {"nw", "ne", "sw", "se"}
Nodes == UNION {[1..n -> Quadrants] : n \in 0..MaxDepth}
Root == <<>>

ASSUME QuadTreeAssumption ==
    /\ Capacity \in Nat \ {0}
    /\ MaxDepth \in Nat
    /\ Side \in Nat /\ Side % (2 ^ MaxDepth) = 0
    /\ Sites \subseteq Int \X Int
    /\ None \notin Sites \cup Nodes
    /\ IsFiniteSet(Drivers)

Below(n) == {m \in Nodes : IsStrictPrefix(n, m)}
Above(n) == {SubSeq(n, 1, i) : i \in 0..(Len(n) - 1)}

Lat(p) == p[1]
Lng(p) == p[2]
Mid(a, b) == (a + b) \div 2

\* subdivide: the quarter of a box.
Quarter(b, q) ==
    LET midLat == Mid(b.minLat, b.maxLat)
        midLng == Mid(b.minLng, b.maxLng)
    IN  [minLat |-> IF q \in {"nw", "ne"} THEN midLat ELSE b.minLat,
         maxLat |-> IF q \in {"nw", "ne"} THEN b.maxLat ELSE midLat,
         minLng |-> IF q \in {"nw", "sw"} THEN b.minLng ELSE midLng,
         maxLng |-> IF q \in {"nw", "sw"} THEN midLng ELSE b.maxLng]

Bounds[n \in Nodes] ==
    IF n = Root THEN [minLat |-> 0, maxLat |-> Side, minLng |-> 0, maxLng |-> Side]
    ELSE Quarter(Bounds[Front(n)], Last(n))

\* A box is closed: a place on a border belongs to the boxes on both sides.
InBox(b, p) ==
    /\ b.minLat <= Lat(p) /\ Lat(p) <= b.maxLat
    /\ b.minLng <= Lng(p) /\ Lng(p) <= b.maxLng

\* _insertChild: a place on the dividing line goes north and east.
Child(n, p) ==
    LET north == Lat(p) >= Mid(Bounds[n].minLat, Bounds[n].maxLat)
        west == Lng(p) < Mid(Bounds[n].minLng, Bounds[n].maxLng)
    IN  Append(n, IF north THEN IF west THEN "nw" ELSE "ne"
                           ELSE IF west THEN "sw" ELSE "se")

\* The nodes from n down to the bottom, by depth, in which a place would be put.
Descent(n, p) ==
    LET node[i \in Len(n)..MaxDepth] == IF i = Len(n) THEN n ELSE Child(node[i - 1], p)
    IN  node

\* The undivided node of a descent.
LeafOf(split, down) == down[Min({i \in DOMAIN down : down[i] \notin split})]

-----------------------------------------------------------------------------
(* Operations on a tree *)

\* Mutant: a split leaves the cached leaves of the points it pushes down.
InsertedStale(t, d, p) ==
    LET down == Descent(Root, p)
        leaf == LeafOf(t.divided, down)
        held == t.points[leaf]
        Under(n) == {e \in held : n \in Range(Descent(leaf, t.map[e]))}
        depth == Min({i \in Len(leaf)..MaxDepth :
                        i = MaxDepth \/ Cardinality(Under(down[i])) < Capacity})
        split == t.divided \cup {down[i] : i \in Len(leaf)..(depth - 1)}
        Home(e) == LeafOf(split, Descent(leaf, t.map[e]))
    IN  [divided |-> split,
         points |-> [n \in Nodes |->
            (IF n = leaf THEN {} ELSE t.points[n])
                \cup {e \in held : Home(e) = n}
                \cup IF n = down[depth] THEN {d} ELSE {}],
         map |-> [t.map EXCEPT ![d] = p],
         leaves |-> [t.leaves EXCEPT ![d] = down[depth]]]

\* insert of a driver that is not in the tree, at a place of the region.  The leaf
\* takes the point if it has room or lies at the bottom.  If not, it splits, and its
\* points are pushed down; so does the child the new point falls into as long as all
\* of them fell there too.
Inserted(t, d, p) ==
    LET down == Descent(Root, p)
        leaf == LeafOf(t.divided, down)
        held == t.points[leaf]
        Under(n) == {e \in held : n \in Range(Descent(leaf, t.map[e]))}
        depth == Min({i \in Len(leaf)..MaxDepth :
                        i = MaxDepth \/ Cardinality(Under(down[i])) < Capacity})
        split == t.divided \cup {down[i] : i \in Len(leaf)..(depth - 1)}
        Home(e) == LeafOf(split, Descent(leaf, t.map[e]))
    IN  [divided |-> split,
         points |-> [n \in Nodes |->
            (IF n = leaf THEN {} ELSE t.points[n])
                \cup {e \in held : Home(e) = n}
                \cup IF n = down[depth] THEN {d} ELSE {}],
         map |-> [t.map EXCEPT ![d] = p],
         leaves |-> [e \in Drivers |->
            IF e = d THEN down[depth] ELSE IF e \in held THEN Home(e) ELSE t.leaves[e]]]

\* Mutant: a collapse stops at the parent of the leaf.
CollapsesParent(t, a, leaf) ==
    /\ a = Front(leaf)
    /\ t.divided \cap Below(a) = {}
    /\ Cardinality(UNION {t.points[n] : n \in Below(a)}) <= Capacity

\* tryCollapse gets up to a from a leaf below it, and collapses it: of the nodes
\* below only those on the way are divided, and what they hold fits into a leaf.
Collapses(t, a, leaf) ==
    /\ t.divided \cap Below(a) \subseteq Above(leaf)
    /\ Cardinality(UNION {t.points[n] : n \in Below(a)}) <= Capacity

\* A node takes what is below it and becomes a leaf.
Gathered(t, top) ==
    LET all == UNION {t.points[n] : n \in Below(top)}
    IN  [t EXCEPT
            !.divided = @ \ ({top} \cup Below(top)),
            !.points = [n \in Nodes |->
                IF n = top THEN all ELSE IF n \in Below(top) THEN {} ELSE @[n]],
            !.leaves = [e \in Drivers |-> IF e \in all THEN top ELSE @[e]]]

\* remove: the cached leaf loses the point, and emptied nodes are collapsed.
Removed(t, d) ==
    LET leaf == t.leaves[d]
        rest == [t EXCEPT !.points[leaf] = @ \ {d}, !.map[d] = None, !.leaves[d] = None]
        tops == {a \in Above(leaf) : Collapses(rest, a, leaf)}
    IN  IF leaf = None \/ d \notin t.points[leaf] THEN t
        ELSE IF tops = {} THEN rest
        ELSE Gathered(rest, CHOOSE a \in tops : tops \subseteq {a} \cup Below(a))

\* insert: a known driver is removed first, whether or not its new place is inside.
Placed(t, d, p) ==
    LET without == IF t.map[d] = None THEN t ELSE Removed(t, d)
    IN  IF InBox(Bounds[Root], p) THEN Inserted(without, d, p) ELSE without

-----------------------------------------------------------------------------
Init ==
    /\ divided = {}
    /\ points = [n \in Nodes |-> {}]
    /\ driverMap = [d \in Drivers |-> None]
    /\ driverLeaves = [d \in Drivers |-> None]

InsertDriver(d, p) == Becomes(Placed(Tree, d, p))

RemoveDriver(d) == driverMap[d] # None /\ Becomes(Removed(Tree, d))

\* Mutant: any move of a known driver is taken for one inside its leaf.
UpdateInLeafAlways(d, p) ==
    /\ driverMap[d] # None
    /\ driverMap' = [driverMap EXCEPT ![d] = p]
    /\ UNCHANGED <<divided, points, driverLeaves>>

\* update inside the box of the cached leaf.
UpdateInLeaf(d, p) ==
    /\ driverMap[d] # None
    /\ InBox(Bounds[driverLeaves[d]], p)
    /\ driverMap' = [driverMap EXCEPT ![d] = p]
    /\ UNCHANGED <<divided, points, driverLeaves>>

\* update across the border: remove, then insert.
UpdateAcross(d, p) ==
    /\ driverMap[d] # None
    /\ ~InBox(Bounds[driverLeaves[d]], p)
    /\ Becomes(Placed(Removed(Tree, d), d, p))

Next ==
    \E d \in Drivers :
        \/ RemoveDriver(d)
        \/ \E p \in Sites : InsertDriver(d, p) \/ UpdateInLeaf(d, p) \/ UpdateAcross(d, p)

Spec == Init /\ [][Next]_vars

-----------------------------------------------------------------------------
(* Properties *)

\* The leaves of the tree, as a traversal from the root meets them.
Leaves == {n \in Nodes \ divided : Above(n) \subseteq divided}

TypeOK ==
    /\ divided \subseteq Nodes
    /\ points \in [Nodes -> SUBSET Drivers]
    /\ driverMap \in [Drivers -> Sites \cup {None}]
    /\ driverLeaves \in [Drivers -> Nodes \cup {None}]

\* The cached leaf is never stale: a driver with a place is in one leaf that a
\* traversal reaches, the cached one, whose box holds the place; any other driver is
\* in no node.  Splits and collapses move the points of other drivers.
LeavesExact ==
    \A d \in Drivers :
        LET holding == {n \in Nodes : d \in points[n]}
        IN  IF driverMap[d] = None THEN holding = {} /\ driverLeaves[d] = None
            ELSE /\ holding = {driverLeaves[d]}
                 /\ driverLeaves[d] \in Leaves
                 /\ InBox(Bounds[driverLeaves[d]], driverMap[d])

\* The tree is as small as its points allow after any sequence of operations: only a
\* leaf at the bottom is over capacity, and what is below a divided node would not
\* fit into a leaf.
SplitsAreNeeded ==
    /\ \A n \in Leaves : Cardinality(points[n]) > Capacity => Len(n) = MaxDepth
    /\ \A n \in divided : Cardinality(UNION {points[m] : m \in Below(n)}) > Capacity

\* The places of the drivers that a traversal of the leaves finds.
foundBar ==
    LET all == UNION {points[n] : n \in Leaves}
    IN  [d \in Drivers |-> IF d \in all THEN driverMap[d] ELSE None]

\* The tree keeps the promise of SpatialIndex.
Index == INSTANCE SpatialIndex WITH
    Region <- {p \in Sites : InBox(Bounds[Root], p)},
    found <- foundBar
ImplementsIndex == Index!Spec

=============================================================================

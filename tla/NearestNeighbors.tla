-------------------------- MODULE NearestNeighbors --------------------------
(***************************************************************************)
(* kNearestNeighbors of src/spatial/quadtree.ts: the best-first search for *)
(* the k nearest drivers within a radius.  Distances are the squares of    *)
(* the planar ones, for which the clamped point is the nearest of a box;   *)
(* the great-circle distance of the code is not.  A loop is a function of  *)
(* the number of its turns, and a break a state it does not leave again.   *)
(***************************************************************************)
EXTENDS QuadTree

CONSTANTS
    Queries,        \* places that are asked for
    Ks,             \* numbers of drivers that are asked for
    Radii           \* squares of the radii

ASSUME NearestAssumption ==
    /\ Queries \subseteq Int \X Int
    /\ Ks \subseteq Nat
    /\ Radii \subseteq Int

Closer(a, b) == a.minDist < b.minDist
Heap == INSTANCE MinHeap WITH Less <- Closer

Square(x) == x * x
Distance(p, q) == Square(Lat(p) - Lat(q)) + Square(Lng(p) - Lng(q))

Clamp(x, low, high) == Max({low, Min({x, high})})

MinDistanceToBox(q, b) ==
    Distance(q, <<Clamp(Lat(q), b.minLat, b.maxLat), Clamp(Lng(q), b.minLng, b.maxLng)>>)

\* insertSortedCandidate: in front of the first that is farther, and the k first.
InsertSorted(candidates, c, k) ==
    LET Farther(i) == i > Len(candidates) \/ candidates[i].distance > c.distance
        longer == InsertAt(candidates, Min({i \in 1..(Len(candidates) + 1) : Farther(i)}), c)
    IN  IF Len(candidates) = k /\ c.distance >= candidates[k].distance THEN candidates
        ELSE IF Len(longer) > k THEN Front(longer)
        ELSE longer

\* A point that is within the radius joins the candidates.
Weighed(candidates, d, q, k, radius) ==
    LET dist == Distance(q, driverMap[d])
    IN  IF dist <= radius THEN InsertSorted(candidates, [id |-> d, distance |-> dist], k)
        ELSE candidates

\* The points of a leaf, one after the other.
Evaluate(candidates, n, q, k, radius) ==
    LET order == SetToSeq(points[n])
        run[i \in 0..Len(order)] ==
            IF i = 0 THEN candidates ELSE Weighed(run[i - 1], order[i], q, k, radius)
    IN  run[Len(order)]

\* A child that is within the radius joins the queue.
Offered(queue, child, q, radius) ==
    LET dist == MinDistanceToBox(q, Bounds[child])
    IN  IF dist <= radius THEN Heap!Push(queue, [node |-> child, minDist |-> dist]) ELSE queue

Expand(pq, n, q, radius) ==
    LET nw == Offered(pq, Append(n, "nw"), q, radius)
        ne == Offered(nw, Append(n, "ne"), q, radius)
        sw == Offered(ne, Append(n, "sw"), q, radius)
    IN  Offered(sw, Append(n, "se"), q, radius)

\* A turn of the main loop: it stops at a node no nearer than the k-th candidate.
Visit(s, q, k, radius) ==
    LET current == Heap!Peek(s.pq)
        rest == Heap!Popped(s.pq)
    IN  IF s.pq = <<>> THEN s
        ELSE IF Len(s.candidates) >= k /\ current.minDist >= s.candidates[k].distance
        THEN [s EXCEPT !.pq = <<>>]
        ELSE IF current.minDist > radius THEN [s EXCEPT !.pq = rest]
        ELSE IF current.node \in divided
        THEN [s EXCEPT !.pq = Expand(rest, current.node, q, radius)]
        ELSE [pq |-> rest,
              candidates |-> Evaluate(s.candidates, current.node, q, k, radius)]

\* No node is visited twice.
KNearestNeighbors(q, k, radius) ==
    LET start == [pq |-> <<[node |-> Root, minDist |-> MinDistanceToBox(q, Bounds[Root])]>>,
                  candidates |-> <<>>]
        run[n \in 0..Cardinality(Nodes)] ==
            IF n = 0 THEN start ELSE Visit(run[n - 1], q, k, radius)
    IN  IF k <= 0 THEN <<>> ELSE run[Cardinality(Nodes)].candidates

-----------------------------------------------------------------------------
\* Whatever insertions, moves and collapses the tree has been through, the search
\* returns k of the drivers within the radius, or all of them if there are fewer,
\* nearest first, and no other driver within the radius is nearer than the last.
NearestFound ==
    \A q \in Queries, k \in Ks, radius \in Radii :
        LET result == KNearestNeighbors(q, k, radius)
            ids == {result[i].id : i \in DOMAIN result}
            within == {d \in Drivers :
                driverMap[d] # None /\ Distance(q, driverMap[d]) <= radius}
        IN  /\ Len(result) = Min({k, Cardinality(within)})
            /\ Cardinality(ids) = Len(result)
            /\ ids \subseteq within
            /\ \A i \in DOMAIN result : result[i].distance = Distance(q, driverMap[result[i].id])
            /\ \A i, j \in DOMAIN result : i < j => result[i].distance <= result[j].distance
            /\ \A d \in within \ ids, i \in DOMAIN result :
                    Distance(q, driverMap[d]) >= result[i].distance

=============================================================================

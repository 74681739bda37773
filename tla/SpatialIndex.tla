---------------------------- MODULE SpatialIndex ----------------------------
(***************************************************************************)
(* What the registry expects of its index of available drivers             *)
(* (src/spatial/quadtree.ts): a driver is found at the place last written, *)
(* until it is removed or written outside the operating region.            *)
(***************************************************************************)
CONSTANTS
    Drivers,        \* driver ids
    Sites,          \* places
    Region,         \* those inside the operating region
    None            \* nowhere

VARIABLE found      \* where a search finds a driver, or None

Init == found = [d \in Drivers |-> None]

Put(d, p) == found' = [found EXCEPT ![d] = IF p \in Region THEN p ELSE None]

Insert(d, p) == Put(d, p)

\* Only a driver that is in the index is moved.
Update(d, p) == found[d] # None /\ Put(d, p)

Remove(d) == found' = [found EXCEPT ![d] = None]

Next ==
    \E d \in Drivers : Remove(d) \/ \E p \in Sites : Insert(d, p) \/ Update(d, p)

Spec == Init /\ [][Next]_found
=============================================================================

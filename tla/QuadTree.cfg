\* Every tree that four drivers at seven places can make, and every query on it.
SPECIFICATION Spec
CONSTANTS
    Drivers = {d1, d2, d3, d4}
    Sites <- MCSites
    Capacity = 1
    MaxDepth = 2
    Side = 8
    None = none
    Queries <- MCQueries
    Ks = {0, 1, 2}
    Radii = {10, 100}
SYMMETRY Symmetric
INVARIANTS
    LeavesExact
    SplitsAreNeeded
    NearestFound
PROPERTIES
    ImplementsIndex

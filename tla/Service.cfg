\* Leases outlive their use.  Two requests contend for two drivers and each loop
\* may try both.
CONSTANTS
    None = None
    Riders = {r1, r2}
    Drivers = {d1, d2}
    Requests = {q1, q2}
    K = 2
    MaxTrips = 2
    MaxWire = 2
    Environments <- MCDisturbedOrSteady
SPECIFICATION Spec
SYMMETRY Symmetry
CHECK_DEADLOCK FALSE
INVARIANTS
    SingleLoop
    OfferBacked
    LeaseHasOwner
    NoStrandedDriver
    PoolsAgree
PROPERTY
    ImplementsContract

\* Two servers, crashes, repeated requests, lapsing keys: what the store guarantees.
SPECIFICATION Spec
CONSTANTS
    Servers = {a, b}
    Riders = {r1, r2}
    None = none
    MaxTrips = 3
    MaxWire = 3
    TripLimit <- MCTripLimit
    ActiveRiders <- MCActiveRiders
    Environments <- MCEnvironments
SYMMETRY Symmetric
CHECK_DEADLOCK FALSE
INVARIANTS
    LiveTripsRecorded
    NoLockout
    StoreConsistent
    ClaimProtects
PROPERTIES
    OrphansSwept

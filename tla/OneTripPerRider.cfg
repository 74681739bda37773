\* Two servers, without crashes, repetitions or lapsing keys.
SPECIFICATION Spec
CONSTANTS
    Servers = {a, b}
    Riders = {r1, r2}
    None = none
    MaxTrips = 3
    MaxWire = 3
    TripLimit <- MCTwoTripLimit
    ActiveRiders <- MCTwoActiveRiders
    Environments <- MCTwoServers
SYMMETRY Symmetric
CHECK_DEADLOCK FALSE
INVARIANT
    OneTripPerRider

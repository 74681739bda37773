\* Leases and tokens run out while in use and connections drop.  Two requests
\* contend for one driver; no symmetry, because liveness is checked.
CONSTANTS
    None = None
    Riders = {r1, r2}
    Drivers = {d1}
    Requests = {q1, q2}
    K = 2
    MaxTrips = 2
    MaxWire = 2
    Environments <- MCLapse
SPECIFICATION FairSpec
CHECK_DEADLOCK FALSE
PROPERTIES
    MatchUnderLease
    WaitingTripsSettle
    LeasesReturn

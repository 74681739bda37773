\* Two riders over HTTP, two drivers and a region reset; one driver and rides that
\* may be short; one driver and the driver panels, with two riders, or with one and a
\* reset; or one driver and a dashboard, on two rides, or on one with a lost
\* connection or with the panels.
SPECIFICATION FairViewSpec
CONSTANTS
    None = None
    d1 = d1
    d2 = d2
    r1 = r1
    r2 = r2
    Riders = {r1, r2}
    Viewer = r1
    Drivers = {d1, d2}
    Requests = {q1, q2}
    MaxTrips = 2
    MaxWire = 2
    Scenarios <- MCScenarios
CHECK_DEADLOCK FALSE
INVARIANTS
    AssignedIsDriven
    ViewIsCurrent
PROPERTIES
    StartsAtPickup
    RidesEnd
    DriversComeBack

\* A dashboard, and nobody else.
SPECIFICATION ViewSpec
CONSTANTS
    None = None
    d1 = d1
    d2 = d2
    r1 = r1
    r2 = r2
    Riders = {r1, r2}
    Viewer = r1
    Drivers = {d1, d2}
    Requests = {q1, q2}
    MaxTrips = 2
    MaxWire = 2
    Scenarios <- MCDashboardOnly
CHECK_DEADLOCK FALSE
INVARIANT
    CancelledIsOver

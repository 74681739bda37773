\* Three riders, two drivers and four request ids; the map starts evicting at two
\* trips, so it outgrows its capacity, and of five trips some reuse an evicted id.
CONSTANTS
    None = None
    Riders = {r1, r2, r3}
    Drivers = {d1, d2}
    Requests = {q1, q2, q3, q4}
    Capacity = 2
    MaxTrips = 5
SPECIFICATION Spec
SYMMETRY Symmetry
CHECK_DEADLOCK FALSE
INVARIANTS
    IndicesExact
    NoDoubleBooking
    OneActiveTripPerRider
    MapBounded
PROPERTIES
    DriverLeavesBeforeJoining
    LiveRequestsStayIdempotent
    ImplementsContract

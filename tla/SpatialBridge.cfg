\* One simulated driver and one behind a socket; the engine is left alone until it
\* is ready.  Eight promises: PING, the seeding (two) and five of any kind, or a
\* region reset (three) and two more.
CONSTANTS
    None = None
    Pending = Pending
    Error = Error
    Drivers = {d1, d2}
    Virtual = {d1}
    EarlyTraffic = FALSE
    MaxRequests = 8
    MaxPipe = 2
SPECIFICATION FairSpec
CHECK_DEADLOCK FALSE
INVARIANTS
    OwnAnswer
    SettledInOrder
    MirrorInSync
PROPERTIES
    EveryPromiseSettles

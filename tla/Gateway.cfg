\* One driver, who has up to three sockets on the server, and two requests.
SPECIFICATION GatewaySpec
CONSTANTS
    Drivers = {d1}
    Requests = {q1, q2}
    None = None
    Sockets = {s1, s2, s3}
    NoSocket = NoSocket
INVARIANTS
    NoLostDriver
    LockedIsHidden
PROPERTIES
    ImplementsRegistry
    KeptUnlessSilent
    ConnectedComesBack
    GoneGoesOffline

\* One session, two requests at a time and the billing pass.
SPECIFICATION Spec
CONSTANTS
    Sessions = {s1}
    Requests = {r1, r2}
    Ticker = Ticker
    Operations = {"start", "resume", "pause", "stop", "reconfigure"}
    Broadcasters = {b1, b2, b3}
    NoBroadcaster = NoBroadcaster
    Nobody = Nobody
    MaxFailures = 1
SYMMETRY InterchangeableSymmetry
\* A stop may lock the client for good.
CHECK_DEADLOCK FALSE
INVARIANTS
    TypeOK
    AgreeUnlessDisturbed
    BroadcastersTracked
PROPERTIES
    ImplementsContract
    ImplementsLifecycle

\* One request at a time, in any state of the session.
SPECIFICATION Spec
CONSTANTS
    Sessions = {s1}
    Requests = {r1}
    Ticker = Ticker
    Operations = {"start", "resume", "pause"}
    Broadcasters = {b1}
    NoBroadcaster = NoBroadcaster
    Nobody = Nobody
    MaxFailures = 0
INVARIANTS
    DeliveredIsRunning

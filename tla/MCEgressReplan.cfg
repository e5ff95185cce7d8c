\* One request at a time, with changes of the filter plan.
SPECIFICATION Spec
CONSTANTS
    Sessions = {s1}
    Requests = {r1}
    Ticker = Ticker
    Operations = {"start", "resume", "pause", "reconfigure"}
    Broadcasters = {b1, b2}
    NoBroadcaster = NoBroadcaster
    Nobody = Nobody
    MaxFailures = 0
INVARIANTS
    PausedIsSilent

\* A resume meets the automatic pause of the billing pass.
SPECIFICATION Spec
CONSTANTS
    Sessions = {s1}
    Requests = {r1}
    Ticker = Ticker
    Operations = {"start", "resume"}
    Broadcasters = {b1}
    NoBroadcaster = NoBroadcaster
    Nobody = Nobody
    MaxFailures = 0
INVARIANTS
    RunningIsDelivered

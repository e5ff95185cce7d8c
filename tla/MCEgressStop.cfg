\* One request at a time: a stop is never answered.
SPECIFICATION FairSpec
CONSTANTS
    Sessions = {s1}
    Requests = {r1}
    Ticker = Ticker
    Operations = {"start", "stop"}
    Broadcasters = {b1}
    NoBroadcaster = NoBroadcaster
    Nobody = Nobody
    MaxFailures = 0
CHECK_DEADLOCK FALSE
PROPERTIES
    RequestsAnswered

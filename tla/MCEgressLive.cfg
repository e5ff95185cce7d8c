\* Two requests and the billing pass, and no stop: nothing is left waiting.
SPECIFICATION FairSpec
CONSTANTS
    Sessions = {s1}
    Requests = {r1, r2}
    Ticker = Ticker
    Operations = {"start", "resume", "pause"}
    Broadcasters = {b1, b2, b3}
    NoBroadcaster = NoBroadcaster
    Nobody = Nobody
    MaxFailures = 0
PROPERTIES
    RequestsAnswered
    PausesReachNaryo

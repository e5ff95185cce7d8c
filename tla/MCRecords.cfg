\* One session, events that are delivered again and concurrently, a queue and
\* lists that overflow.
SPECIFICATION Spec
CONSTANTS
    Sessions = {s1}
    NoSession = NoSession
    MaxEntries = 2
    Events = {e1, e2}
    Deliveries = {d1, d2}
    Nothing = Nothing
    Limit = 1
    Requests = {r1, r2}
    Ticker = Ticker
    NoStop = NoStop
    QueueSize = 1
    MaxMoves = 4
    MaxFailures = 1
SYMMETRY Interchangeable
CHECK_DEADLOCK FALSE
INVARIANTS
    TypeOK
    InboxIsLatest
    EachToldOnce
    AuditTellsState
    FeedTellsState
    AuditConservesUnits
PROPERTY ImplementsLifecycle

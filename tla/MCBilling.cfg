\* Two sessions of one agent (or of none) share a balance.
SPECIFICATION Spec
CONSTANTS
    Agents = {a1}
    Sessions = {s1, s2}
    Receipts = {r1}
    Worth <- MCWorth
    NoReceipt = NoReceipt
    NoAgent = NoAgent
    Rate = 2
    SecondsPerMinute = 3
    DebitInterval = 1
    MinStartMinutes = 1
    Grace = 2
    SummaryWindow = 1
    DevCredit = 1
    MaxUnreceipted = 0
    MaxBilled = 5
    LastStart = 4
    MaxInFlight = 1
SYMMETRY SessionSymmetry
INVARIANTS
    TypeOK
    BalancesConserved
    RuntimeAccounted
    DebitsMatchCharges
    SummariesComplete
    CarriesLessThanUnit
PROPERTIES
    BilledOnlyWhileStreaming
    StopIsFinal
    ImplementsLifecycle

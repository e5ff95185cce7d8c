\* One session whose agent may run out of funds, metered under fairness.
SPECIFICATION FairSpec
CONSTANTS
    Agents = {a1}
    Sessions = {s1}
    Receipts = {r1}
    Worth <- MCWorth
    NoReceipt = NoReceipt
    NoAgent = NoAgent
    Rate = 2
    SecondsPerMinute = 3
    DebitInterval = 2
    MinStartMinutes = 1
    Grace = 2
    SummaryWindow = 1
    DevCredit = 1
    MaxUnreceipted = 1
    MaxBilled = 16
    LastStart = 4
    MaxInFlight = 1
PROPERTIES
    UnfundedIsPaused
    PausedOnlyWithoutFunds

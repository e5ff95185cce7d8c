------------------------------ MODULE Billing -------------------------------
(***************************************************************************)
(* Sessions, their prepaid metering and the billing loop                   *)
(* (internal/pipeline/service.go, state_store.go, model.go,                *)
(* internal/billing/ticker.go), over the ledger of module Ledger.          *)
(*                                                                         *)
(* Every change of a session is one MemoryStore.Update, which runs under   *)
(* the store's mutex, so it is one step.  What is not one step, and is not *)
(* here: a request to start or resume checks the balance before its        *)
(* Update, and a billing pass updates one session after the other, with    *)
(* requests in between.                                                    *)
(*                                                                         *)
(* What the calls to Naryo do to the egress is the subject of module       *)
(* Egress; here a call either fails, and the request changes nothing, or   *)
(* succeeds.                                                               *)
(***************************************************************************)
EXTENDS Ledger, FiniteSetsExt

CONSTANTS
    NoAgent,          \* the empty agent ID: the session is not metered
    Rate,             \* rateUnitsPerMinute
    SecondsPerMinute, \* 60 in the code
    DebitInterval,    \* debitIntervalSeconds
    MinStartMinutes,  \* minStartMinutes
    Grace,            \* seconds from a failed charge to its retry, 60 in the code
    SummaryWindow,    \* summaryWindowMinutes, in seconds
    DevCredit,        \* units that a credit without a receipt adds
    MaxUnreceipted,   \* bound: units credited to an agent without a receipt
    MaxBilled,        \* bound: seconds billed to a session
    LastStart,        \* bound: no session starts or resumes once it is billed more
    MaxInFlight       \* bound: requests between their balance check and Update

ASSUME BillingAssumption ==
    /\ NoAgent \notin Agents
    /\ Rate \in Nat \ {0}
    /\ SecondsPerMinute \in Nat \ {0}
    /\ DebitInterval \in Nat \ {0}
    /\ MinStartMinutes \in Nat \ {0}
    /\ Grace \in Nat \ {0}
    /\ SummaryWindow \in Nat \ {0}
    /\ DevCredit \in Nat \ {0}
    /\ MaxUnreceipted \in Nat
    /\ MaxBilled \in Nat
    /\ LastStart \in Nat
    /\ MaxInFlight \in Nat

VARIABLES
    sess,      \* lifecycle of each session
    meter,     \* prepaid metering of each session
    summary,   \* charges not yet reported in a billing_summary event
    admitted,  \* start and resume requests past their balance check
    tick,      \* the ticker's channel (capacity 1) holds a tick
    todo,      \* sessions the billing pass in progress has yet to visit
    waived,    \* history: metered runtime that was dropped, times Rate
    reported,  \* history: units reported by billing_summary events
    restarted  \* history: sessions started from paused

billingVars == <<sess, meter, summary, admitted, tick, todo, waived, reported, restarted>>
vars == <<ledgerVars, billingVars>>

Absent  == "absent"   \* not created yet
Created == "created"
Running == "running"
Paused  == "paused"
Stopped == "stopped"

Never == -1  \* no charge yet, so LastSummaryEmittedAt is the zero time

Lifecycle == [
    state: {Absent, Created, Running, Paused, Stopped},
    agent: Agents \union {NoAgent},
    stream: BOOLEAN,       \* PaymentStreamActive
    autoPaused: BOOLEAN]   \* AutoPausedForFunds

Meter == [
    billed: Nat,           \* BilledSeconds
    charged: Nat,          \* ChargedUnits
    numerator: Nat,        \* BillingNumerator
    window: Nat,           \* SecondsInDebitWindow
    seq: Nat,              \* CommittedDebitSeq
    retry: BOOLEAN,        \* FundsChargeRetryPending
    grace: 0 .. Grace]     \* seconds left until FundsRetryAtUnix

Summary == [
    units: Nat,            \* SummaryPendingUnits
    seconds: Nat,          \* SummaryPendingRuntimeSeconds
    since: {Never} \union (0 .. SummaryWindow)]  \* age of LastSummaryEmittedAt, capped

Requests == {"start", "resume"} \X Sessions

\* Type correctness of the sessions and of the ledger: in particular no
\* balance, of any agent, is ever negative, however the billing pass, the
\* top-ups and the requests interleave.
TypeOK ==
    /\ LedgerTypeOK
    /\ sess \in [Sessions -> Lifecycle]
    /\ meter \in [Sessions -> Meter]
    /\ summary \in [Sessions -> Summary]
    /\ admitted \subseteq Requests
    /\ tick \in BOOLEAN
    /\ todo \subseteq Sessions
    /\ waived \in [Sessions -> Nat]
    /\ reported \in [Sessions -> Nat]
    /\ restarted \subseteq Sessions

Init ==
    /\ LedgerInit
    /\ sess = [s \in Sessions |-> [state |-> Absent, agent |-> NoAgent,
                                   stream |-> FALSE, autoPaused |-> FALSE]]
    /\ meter = [s \in Sessions |-> [billed |-> 0, charged |-> 0, numerator |-> 0,
                                    window |-> 0, seq |-> 0, retry |-> FALSE, grace |-> 0]]
    /\ summary = [s \in Sessions |-> [units |-> 0, seconds |-> 0, since |-> Never]]
    /\ admitted = {}
    /\ tick = FALSE
    /\ todo = {}
    /\ waived = [s \in Sessions |-> 0]
    /\ reported = [s \in Sessions |-> 0]
    /\ restarted = {}

-----------------------------------------------------------------------------
(* Top-ups *)

\* CreditTopUp with a payment's receipt, presented any number of times.
TopUp(a, r) ==
    /\ Credit(a, r)
    /\ UNCHANGED billingVars

\* CreditTopUp with an empty SourceTxID.
TopUpUnreceipted(a) ==
    /\ unreceipted[a] + DevCredit <= MaxUnreceipted
    /\ CreditUnreceipted(a, DevCredit)
    /\ UNCHANGED billingVars

-----------------------------------------------------------------------------
(* Requests *)

PrepaidMinUnits == Rate * MinStartMinutes

CheckPrepaid(a) == a \in Agents => CanAfford(a, PrepaidMinUnits)

\* Create: the new session is stored in state created.
Create(s, a) ==
    /\ sess[s].state = Absent
    /\ CheckPrepaid(a)
    /\ sess' = [sess EXCEPT ![s] = [@ EXCEPT !.state = Created, !.agent = a]]
    /\ UNCHANGED <<ledgerVars, meter, summary, admitted, tick, todo, waived, reported, restarted>>

\* Start and Resume up to their Update: the session exists and its agent has
\* the minimum runway now.
Admit(op, s) ==
    /\ Cardinality(admitted) < MaxInFlight
    /\ <<op, s>> \notin admitted
    /\ sess[s].state # Absent
    /\ CheckPrepaid(sess[s].agent)
    /\ admitted' = admitted \union {<<op, s>>}
    /\ UNCHANGED <<ledgerVars, sess, meter, summary, tick, todo, waived, reported, restarted>>

\* The request's Naryo call fails, or its Update finds another state.
Reject(op, s) ==
    /\ <<op, s>> \in admitted
    /\ admitted' = admitted \ {<<op, s>>}
    /\ UNCHANGED <<ledgerVars, sess, meter, summary, tick, todo, waived, reported, restarted>>

\* A mutated Startable: a stopped session starts again.
StartableAnew(s) == sess[s].state \in {Created, Paused, Stopped}

Startable(s) == sess[s].state \in {Created, Paused}

\* A mutated start: the length of the open window is not reset.
MeterAtStartInWindow(s) ==
    [meter[s] EXCEPT !.numerator = 0, !.seq = 0, !.retry = FALSE, !.grace = 0]

\* A start drops what the open window had accrued.
MeterAtStart(s) ==
    [meter[s] EXCEPT !.numerator = 0, !.window = 0, !.seq = 0,
                     !.retry = FALSE, !.grace = 0]

NowRunning(s) ==
    [sess[s] EXCEPT !.state = Running, !.stream = TRUE, !.autoPaused = FALSE]

\* The Update of Start, from created or paused, with Naryo provisioned.
Start(s) ==
    /\ <<"start", s>> \in admitted
    /\ Startable(s)
    /\ meter[s].billed <= LastStart
    /\ admitted' = admitted \ {<<"start", s>>}
    /\ sess' = [sess EXCEPT ![s] = NowRunning(s)]
    /\ meter' = [meter EXCEPT ![s] = MeterAtStart(s)]
    /\ waived' = [waived EXCEPT ![s] = @ + meter[s].numerator]
    /\ restarted' = IF sess[s].state = Paused THEN restarted \union {s} ELSE restarted
    /\ UNCHANGED <<ledgerVars, summary, tick, todo, reported>>

\* The Update of Resume: the accrual of the interrupted window is kept.
Resume(s) ==
    /\ <<"resume", s>> \in admitted
    /\ sess[s].state = Paused
    /\ meter[s].billed <= LastStart
    /\ admitted' = admitted \ {<<"resume", s>>}
    /\ sess' = [sess EXCEPT ![s] = NowRunning(s)]
    /\ meter' = [meter EXCEPT ![s] = [@ EXCEPT !.retry = FALSE, !.grace = 0]]
    /\ UNCHANGED <<ledgerVars, summary, tick, todo, waived, reported, restarted>>

\* The Update of Pause.
Pause(s) ==
    /\ sess[s].state = Running
    /\ sess' = [sess EXCEPT ![s] = [@ EXCEPT !.state = Paused, !.stream = FALSE]]
    /\ UNCHANGED <<ledgerVars, meter, summary, admitted, tick, todo, waived, reported, restarted>>

\* The Update of Stop, which leaves a stopped session as it is.
Stop(s) ==
    /\ sess[s].state \in {Created, Running, Paused}
    /\ sess' = [sess EXCEPT ![s] = [@ EXCEPT !.state = Stopped, !.stream = FALSE]]
    /\ UNCHANGED <<ledgerVars, meter, summary, admitted, tick, todo, waived, reported, restarted>>

StreamToggled(s) == [sess[s] EXCEPT !.stream = ~@]

\* SetPaymentStreamActive to the other value.
SetPaymentStreamActive(s) ==
    /\ sess[s].state = Running
    /\ sess' = [sess EXCEPT ![s] = StreamToggled(s)]
    /\ UNCHANGED <<ledgerVars, meter, summary, admitted, tick, todo, waived, reported, restarted>>

-----------------------------------------------------------------------------
(* The billing pass.  The pass reads the clock once, when it begins: time  *)
(* that goes by during a pass counts after it (Elapse waits for todo = {}).*)

\* A mutated IsBilled: a stalled payment stream is billed as well.
IsBilledAnyStream(s) == sess[s].state = Running

\* The sessions a billing pass bills.
IsBilled(s) == sess[s].state = Running /\ sess[s].stream

\* The loop receives a tick; the pass takes a snapshot of the session
\* identifiers.
TickBegin ==
    /\ todo = {}
    /\ tick
    /\ tick' = FALSE
    /\ \A s \in Sessions : sess[s].state # Stopped => meter[s].billed < MaxBilled
    /\ todo' = {s \in Sessions : sess[s].state # Absent}
    /\ UNCHANGED <<ledgerVars, sess, meter, summary, admitted, waived, reported, restarted>>

InGrace(s) == meter[s].retry /\ meter[s].grace > 0

Accrued(s) == meter[s].numerator + Rate
WindowSecs(s) == meter[s].window + 1

ChargeUnits(s) == Accrued(s) \div SecondsPerMinute
RemNumerator(s) == Accrued(s) % SecondsPerMinute

Bucket(s) == meter[s].seq + 1

Metered(s) == IsBilled(s) /\ sess[s].agent \in Agents /\ ~InGrace(s)
Settling(s) == Metered(s) /\ WindowSecs(s) >= DebitInterval

\* A mutated test for funds: the retry gives up without charging again.
CoveredUnlessRetry(s) ==
    ~meter[s].retry /\ ChargeAccepted(sess[s].agent, s, ChargeUnits(s), Bucket(s))

Covered(s) == ChargeAccepted(sess[s].agent, s, ChargeUnits(s), Bucket(s))

\* A session that is not running, or whose payment stream is stalled.
TickIdle(s) ==
    /\ ~IsBilled(s)
    /\ UNCHANGED <<ledgerVars, sess, meter, summary, waived, reported>>

\* The second is counted and not metered.
MeterUncharged(s) == [meter[s] EXCEPT !.billed = @ + 1]

\* A session without an agent has its runtime counted and nothing else.
TickUnmetered(s) ==
    /\ IsBilled(s)
    /\ sess[s].agent = NoAgent
    /\ meter' = [meter EXCEPT ![s] = MeterUncharged(s)]
    /\ UNCHANGED <<ledgerVars, sess, summary, waived, reported>>

\* Between a failed charge and its retry the runtime is not metered.
TickGrace(s) ==
    /\ IsBilled(s)
    /\ sess[s].agent \in Agents
    /\ InGrace(s)
    /\ meter' = [meter EXCEPT ![s] = MeterUncharged(s)]
    /\ waived' = [waived EXCEPT ![s] = @ + Rate]
    /\ UNCHANGED <<ledgerVars, sess, summary, reported>>

\* The window takes one more second and stays open.
MeterAccruing(s, retry, grace) ==
    [meter[s] EXCEPT !.billed = @ + 1, !.numerator = Accrued(s),
                     !.window = WindowSecs(s), !.retry = retry, !.grace = grace]

\* A second within the debit window.
TickAccrue(s) ==
    /\ Metered(s)
    /\ ~Settling(s)
    /\ meter' = [meter EXCEPT ![s] = MeterAccruing(s, meter[s].retry, meter[s].grace)]
    /\ UNCHANGED <<ledgerVars, sess, summary, waived, reported>>

MeterAfterCarry(s) ==
    [meter[s] EXCEPT !.billed = @ + 1, !.numerator = RemNumerator(s),
                     !.window = 0, !.retry = FALSE, !.grace = 0]

\* The window ends with less than a unit: it is carried into the next one.
TickCarry(s) ==
    /\ Settling(s)
    /\ ChargeUnits(s) = 0
    /\ meter' = [meter EXCEPT ![s] = MeterAfterCarry(s)]
    /\ UNCHANGED <<ledgerVars, sess, summary, waived, reported>>

\* A mutated report: the charge that closes the summary window is left out.
ReportForgetsLast(s, due) ==
    /\ summary' = [summary EXCEPT ![s] = [units |-> 0, seconds |-> 0, since |-> 0]]
    /\ reported' = [reported EXCEPT ![s] = @ + summary[s].units]

\* A billing_summary event reports everything charged since the last one.
Report(s, due) ==
    /\ summary' = [summary EXCEPT ![s] = [units |-> 0, seconds |-> 0, since |-> 0]]
    /\ reported' = [reported EXCEPT ![s] = @ + summary[s].units + due]

SummaryAfterDefer(s, due) ==
    [summary[s] EXCEPT !.units = @ + due, !.seconds = @ + WindowSecs(s),
                       !.since = IF @ = Never THEN 0 ELSE @]

\* The charge is added to the pending summary, whose age counts from the
\* first charge.
Defer(s, due) ==
    /\ summary' = [summary EXCEPT ![s] = SummaryAfterDefer(s, due)]
    /\ UNCHANGED reported

\* A mutated settlement: the fraction of a unit left over is dropped.
MeterAfterChargeDropsRemainder(s) ==
    [meter[s] EXCEPT !.billed = @ + 1, !.charged = @ + ChargeUnits(s),
                     !.numerator = 0, !.window = 0, !.seq = @ + 1,
                     !.retry = FALSE, !.grace = 0]

\* A mutated settlement: the sequence of debits does not advance.
MeterAfterChargeSameBucket(s) ==
    [meter[s] EXCEPT !.billed = @ + 1, !.charged = @ + ChargeUnits(s),
                     !.numerator = RemNumerator(s), !.window = 0,
                     !.retry = FALSE, !.grace = 0]

MeterAfterCharge(s) ==
    [meter[s] EXCEPT !.billed = @ + 1, !.charged = @ + ChargeUnits(s),
                     !.numerator = RemNumerator(s), !.window = 0, !.seq = @ + 1,
                     !.retry = FALSE, !.grace = 0]

\* The window ends and the ledger accepts its charge.
TickCharge(s) ==
    /\ Settling(s)
    /\ ChargeUnits(s) > 0
    /\ Covered(s)
    /\ ChargeUsage(sess[s].agent, s, ChargeUnits(s), Bucket(s))
    /\ meter' = [meter EXCEPT ![s] = MeterAfterCharge(s)]
    /\ IF summary[s].since = SummaryWindow
         THEN Report(s, ChargeUnits(s))
         ELSE Defer(s, ChargeUnits(s))
    /\ UNCHANGED <<sess, waived>>

\* The ledger refuses the charge for the first time: a retry is due later,
\* with the window still open.
TickRetryLater(s) ==
    /\ Settling(s)
    /\ ChargeUnits(s) > 0
    /\ ~Covered(s)
    /\ ~meter[s].retry
    /\ meter' = [meter EXCEPT ![s] = MeterAccruing(s, TRUE, Grace)]
    /\ UNCHANGED <<ledgerVars, sess, summary, waived, reported>>

\* A mutated auto-pause: the session stays running and retries for ever.
PausedForFundsNever(s) == sess[s]

\* Another: the payment stream stays active.
PausedForFundsStreaming(s) == [sess[s] EXCEPT !.state = Paused, !.autoPaused = TRUE]

PausedForFunds(s) ==
    [sess[s] EXCEPT !.state = Paused, !.stream = FALSE, !.autoPaused = TRUE]

\* The ledger refuses the retry: the session is paused.
TickAutoPause(s) ==
    /\ Settling(s)
    /\ ChargeUnits(s) > 0
    /\ ~Covered(s)
    /\ meter[s].retry
    /\ sess' = [sess EXCEPT ![s] = PausedForFunds(s)]
    /\ meter' = [meter EXCEPT ![s] = MeterAccruing(s, FALSE, 0)]
    /\ UNCHANGED <<ledgerVars, summary, waived, reported>>

\* The pass visits one of the sessions left, in the order of Go's map.
TickSession(s) ==
    /\ s \in todo
    /\ todo' = todo \ {s}
    /\ \/ TickIdle(s)
       \/ TickUnmetered(s)
       \/ TickGrace(s)
       \/ TickAccrue(s)
       \/ TickCarry(s)
       \/ TickCharge(s)
       \/ TickRetryLater(s)
       \/ TickAutoPause(s)
    /\ UNCHANGED <<admitted, tick, restarted>>

\* A second of wall-clock time.  The ticker sends a tick, or drops it when
\* the loop has not received the last one: a slow pass misses seconds.
Elapse ==
    /\ todo = {}
    /\ tick' = TRUE
    /\ meter' = [s \in Sessions |->
                   [meter[s] EXCEPT !.grace = IF @ > 0 THEN @ - 1 ELSE 0]]
    /\ summary' = [s \in Sessions |->
                     [summary[s] EXCEPT !.since =
                        IF @ \in {Never, SummaryWindow} THEN @ ELSE @ + 1]]
    /\ UNCHANGED <<ledgerVars, sess, admitted, todo, waived, reported, restarted>>

-----------------------------------------------------------------------------
Next ==
    \/ \E a \in Agents, r \in Receipts : TopUp(a, r)
    \/ \E a \in Agents : TopUpUnreceipted(a)
    \/ \E s \in Sessions, a \in Agents \union {NoAgent} : Create(s, a)
    \/ \E op \in {"start", "resume"}, s \in Sessions : Admit(op, s)
    \/ \E op \in {"start", "resume"}, s \in Sessions : Reject(op, s)
    \/ \E s \in Sessions : Start(s)
    \/ \E s \in Sessions : Resume(s)
    \/ \E s \in Sessions : Pause(s)
    \/ \E s \in Sessions : Stop(s)
    \/ \E s \in Sessions : SetPaymentStreamActive(s)
    \/ TickBegin
    \/ \E s \in Sessions : TickSession(s)
    \/ Elapse

Spec == Init /\ [][Next]_vars

\* The ticker (billing.RunEach, one second) and the clock never stop; nobody
\* promises a top-up or a request.
Fairness ==
    /\ WF_vars(TickBegin)
    /\ \A s \in Sessions : WF_vars(TickSession(s))
    /\ WF_vars(Elapse)

FairSpec == Spec /\ Fairness

-----------------------------------------------------------------------------
(* Refinement *)

Life == INSTANCE SessionLifecycle WITH
    state <- [s \in Sessions |-> sess[s].state],
    stream <- [s \in Sessions |-> sess[s].stream],
    charged <- [s \in Sessions |-> meter[s].charged],
    unreported <- [s \in Sessions |-> summary[s].units]

\* Requests that were admitted on an older state and passes under way leave
\* each session on the one lifecycle that all parts of the platform assume.
ImplementsLifecycle == Life!Spec

-----------------------------------------------------------------------------
(* Properties *)

SumOver(f, S) == MapThenSumSet(LAMBDA s : f[s], S)

\* Units charged to sessions come out of prepaid balances and nowhere else,
\* and payments enter them once: what an agent has left and what its sessions
\* were debited make up the payments credited, however often a client
\* presents a receipt again (ledger.go, Credit and ChargeUsage).
BalancesConserved ==
    \A a \in Agents :
        balance[a] + SumOver(debited, {s \in Sessions : sess[s].agent = a})
          = unreceipted[a]
              + SumOver(Worth, {r \in Receipts : <<a, r>> \in creditKeys})

\* All the runtime of a metered session is charged, waiting in the current
\* window, or was waived by a grace period or a start that reset the window:
\* no charge, failed charge, retry, pause or resume loses or repeats a
\* fraction of a unit (service.go, runBillingTick).
RuntimeAccounted ==
    \A s \in Sessions : sess[s].agent \in Agents =>
        SecondsPerMinute * meter[s].charged + meter[s].numerator + waived[s]
          = Rate * meter[s].billed

\* A debit window takes over less than a unit from the one before, whatever
\* refused charges, pauses, resumes and starts came in between: each charge is
\* for the runtime of its own window and a fraction of a unit, and no unit is
\* held back (service.go, BillingNumerator and SecondsInDebitWindow).
CarriesLessThanUnit ==
    \A s \in Sessions :
        meter[s].numerator - Rate * meter[s].window \in 0 .. SecondsPerMinute - 1

\* The units a session reports as charged were taken from its agent's
\* balance, once, unless the session was paused and started again (see
\* ChargesReachLedger); they are never fewer than what was taken.
DebitsMatchCharges ==
    \A s \in Sessions :
        /\ debited[s] <= meter[s].charged
        /\ s \notin restarted => debited[s] = meter[s].charged

\* RUNBOOK.md: a running session with a prepaid balance debits the ledger for
\* every interval.  Start resets the number of the debit, so after pause and
\* start the ledger takes the next debits for ones it has already made.
ChargesReachLedger ==
    \A s \in Sessions : debited[s] = meter[s].charged

\* Every charged unit is reported by exactly one billing_summary event or is
\* waiting for the next one (service.go, the summary window of runBillingTick).
SummariesComplete ==
    \A s \in Sessions : reported[s] + summary[s].units = meter[s].charged

\* What makes the three statements above inductive: a session that never ran
\* has no runtime, no debit and nothing waived, and the keys of the charges of
\* a session, unless it was started again, are the numbers of its debits so
\* far, so that the next debit has a key of its own.
Fresh(s) == sess[s].state \in {Absent, Created}

BlankWhileFresh ==
    \A s \in Sessions : Fresh(s) =>
        /\ meter[s].billed = 0
        /\ meter[s].charged = 0
        /\ meter[s].numerator = 0
        /\ meter[s].seq = 0
        /\ waived[s] = 0

KeysAreCommitted ==
    \A k \in chargeKeys : k[2] \in restarted \/ k[3] <= meter[k[2]].seq

Accounting ==
    /\ TypeOK
    /\ BlankWhileFresh
    /\ KeysAreCommitted
    /\ RuntimeAccounted
    /\ DebitsMatchCharges
    /\ SummariesComplete

\* Only a running session with an active stream is billed: whatever the
\* billing pass and the requests do in between, no step adds to the runtime
\* or the charges of another one.
BilledOnlyWhileStreaming ==
    [][\A s \in Sessions :
         meter'[s].billed # meter[s].billed \/ meter'[s].charged # meter[s].charged
           => sess[s].state = Running /\ sess[s].stream]_vars

\* A stop is final, also for the requests that passed their check before it.
StopIsFinal ==
    [][\A s \in Sessions : sess[s].state = Stopped => sess'[s].state = Stopped]_vars

\* The billing pass pauses a session for lack of funds only when, on the
\* retry, its agent still cannot pay for the open window: a top-up within the
\* grace period keeps the session running (RUNBOOK.md, grace retry).
PausedOnlyWithoutFunds ==
    [][\A s \in Sessions :
         sess'[s].autoPaused /\ ~sess[s].autoPaused
           => balance[sess[s].agent] < ChargeUnits(s)]_vars

Unfunded(s) == sess[s].agent \in Agents /\ balance[sess[s].agent] = 0

\* A session whose agent has nothing left does not run on for ever: it stops
\* being billed, or a top-up arrives (the ticker's auto-pause).
UnfundedIsPaused ==
    \A s \in Sessions :
        (IsBilled(s) /\ Unfunded(s)) ~> ~(IsBilled(s) /\ Unfunded(s))
=============================================================================

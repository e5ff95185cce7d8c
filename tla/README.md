# TLA+ models of the pipeline control plane

The program under `src/` is a Go service that sells event pipelines to agents.
An agent tops up a prepaid balance, creates a session and starts it. While the
session runs, an external indexer, Naryo, posts the session's events to the
platform, and a billing loop debits the agent's balance. When the funds are
gone, the session is paused. This directory specifies that control plane in TLA+,
checks it with TLC, and proves the safety properties that hold with TLAPS.

Paths are relative to `src/`.

## The system

| Component | State | Operations |
|---|---|---|
| Prepaid ledger (`internal/ledger`) | balance of each agent; idempotency keys of credits and charges; one mutex | `Credit`, `ChargeUsage`, `GetBalance`, `CanAfford` |
| Sessions and billing (`internal/pipeline/service.go`, `state_store.go`; `internal/billing`) | sessions in a `MemoryStore` under one RW mutex: lifecycle, metering, pending summary | `Create`, `Start`, `Resume`, `Pause`, `Stop`, `Reconfigure`, `SetPaymentStreamActive`, `CreditTopUp`, and `runBillingTick` once a second |
| Naryo client (`internal/naryo`) | for each session the ids of its filter, configuration and broadcaster, under one mutex; counters; the last error | `EnsurePipeline`, `ResumeEgress`, `PauseEgress`, `StopPipeline`; each several HTTP calls, which Naryo answers with operations to be polled |
| Inbound events (`naryo_events.go`, `internal/http/naryo_ingest.go`) | for each session the last 256 events, and all the event ids ever seen | `IngestNaryoEvent`, `NaryoEvents` |
| HCS audit log (`internal/hcs`) | a channel of 256 envelopes | a typed `emit` per event; one submitter goroutine |
| Activity feed (`activity.go`) | a bounded list of entries | `Record`, `Snapshot` |
| HTTP API (`internal/http`), MCP tools (`internal/mcp`) | none | each handler or tool calls one service operation |
| x402 gate, Hedera deposits (`internal/http/middleware`, `internal/hedera`) | none; external facilitator and mirror node | verification before `Start` and before a credit |
| Dashboard, demo agent, deploy checks | none in the program | clients of the API |

Each request runs in a goroutine of its own. The billing loop is one more
goroutine, fed by a ticker with room for one tick. They meet in three mutexes, those
of the store, of the ledger and of the Naryo client:

- `Start` calls Naryo inside the store's `Update`, so with the store locked, and
  takes the client's mutex inside it.
- `Resume` and `Pause` call Naryo first and change the store afterwards.
- The billing loop updates the sessions one by one, charging the ledger inside
  each `Update`. It calls Naryo for the sessions it paused after the loop.
- `Stop` drops the client's entry for the session, deletes at Naryo without the
  mutex, and changes the store at the end.

Nothing is persisted: a restart of the process begins with empty stores.
Crash and recovery are therefore not a subject here, although what is left at
Naryo would be (see *Not modelled*).

What is hard, and what makes each part correct:

| Part | Hard because | Correct when |
|---|---|---|
| Ledger | a receipt is presented again; two sessions of an agent compete for the same balance; numbers used as keys | money enters once, leaves once, and never goes below zero |
| Metering | integer division with a remainder; a refused charge keeps its window open; pause, resume and start in the middle of a window | every metered second is charged, waiting or waived |
| Lifecycle | balance and existence are checked before the update | a stop is final; only a running session with its stream active is billed; a pause for lack of funds happens only without funds, and does happen |
| Summaries | the charge that closes a window | every charged unit is reported once or pending |
| Egress | store and Naryo change in different steps, in an order that differs between requests; calls fail halfway | store and Naryo agree; no broadcaster is lost; every request is answered |
| Naryo client | a call is up to ten exchanges, each of which may fail or be done without an answer; what was made is found again by listing and by names; stops delete beside other calls | what Naryo delivers is what the session's plan asks for; nothing at Naryo is forgotten; a configuration stays while it is used; the callers see simple steps |
| Inbound events | duplicates, redelivery after the list was cut, told to the feed after the unlock | an event is listed at most once; the list is the newest events in order; each is told once |
| Audit log and feed | told after the change and without its lock; bounded, dropped when full; submits that fail | the log and the feed end with the state and stream a session has; every charged unit is reported once, waiting, or counted as lost |

`PROJECT.json` lists the hazards behind this table at their lines, with the
properties that cover each.

## Modules

### `Ledger`: the prepaid ledger

`balance`, `creditKeys` and `chargeKeys` are the code's maps. Its single map of
string keys is two sets here, since a credit's key and a charge's key never
coincide. Each operation holds the ledger's mutex throughout and so is one step.
`unreceipted` and `debited` are history variables that say where the money went.
A repeated credit or charge succeeds and changes nothing, as in the code.

### `Billing`: sessions, metering and the billing pass

Extends `Ledger`. Everything about a session is one `MemoryStore.Update` in the
code, so one step. What the code does not do under one lock is separate:

- `Admit` is the check that a start or resume makes before its `Update`; any
  action may happen before the `Start` or `Resume` (or `Reject`) that follows.
- `TickBegin` takes the snapshot of session ids, and `TickSession` visits them in
  any order (Go's map), with requests in between. Its disjuncts are the exits of
  the closure in `runBillingTick`: idle, without an agent, in the grace period,
  accruing, carrying less than a unit, charged, refused for the first time,
  refused again and paused.
- `Elapse` is a second of wall-clock time, and the tick that the ticker sends or
  drops.

The wall clock enters the code as differences only: the seconds left of the grace
period (`FundsRetryAtUnix`) and the age of the last summary
(`LastSummaryEmittedAt`), which is capped because only "the window is over"
matters. A pass reads the clock once, when it begins, and no second goes by in the
model while it runs. A slow pass shows as ticks that are dropped.

The runtime of a session is in `meter[s].billed`. `waived` counts the runtime that
the code chooses not to charge: seconds of the grace period, and what was left of a
window when `Start` resets it. `restarted` are the sessions started from paused.

Naryo's answer is only "fails" (`Reject`) or "succeeds" in this module. `Stop` is the
`Update` of a stop whose `StopPipeline` returned: with the HTTP client that is a
session it has no entry for (see the finding on stops below).

### `Egress`: requests, billing pass and Naryo client as concurrent calls

The same requests, seen as goroutines: `call[c]` says where each is. An
operation is split at every place where another goroutine can get in, which is where
a mutex is taken or released. What a call does inside one
critical section is one action. A section that contains a call to Naryo is two: others
see the mutex taken meanwhile (`EnsureLocks` and one of the outcomes of
`EnsurePipeline`, `PauseLocks` and one of the outcomes of `PauseEgress`).
`storeMu` and `clientMu` are held across steps only there.

Of Naryo there is the set of broadcasters of each session; of the client, whether
it has an entry for the session (`known`) and the id in it (`handle`). Filters and
configurations are left out; module `NaryoClient` has them. At most `MaxFailures` calls of the client meet a
failure of Naryo, each in one of the ways that a call may end then: a listing fails and what is in place is taken for
gone (`EnsureMissesOne`); the call falls back to all events (`EnsureFallsBack`); it fails, having made no
broadcaster, one, or, with its fallback, two that it does not know of (`EnsureFails`); a deletion fails, with or
without effect (`PauseFails`). A list without a plan is refused before the client's mutex is taken
(`EnsureRefused`). `replan` says that the filter plan of the session's broadcaster is not the one in the
session's configuration any more: after a reconfigure, or after a fallback.

Metering is left out: any running session may be paused by the pass (`TickPauses`).

Two history variables keep the invariants honest. `disturbed` are sessions where,
since the last request that ran alone and was answered, calls overlapped, Naryo
failed, or a resume was made of a session that was not paused. `replaced` are sessions
where a broadcaster was made while another was in place that the client no longer
knew of, or where Naryo failed. Both name the cause of a divergence, and the runs show that there
is no other cause. `AgreeUnlessDisturbed` uses one for each half of what it says. The broadcaster that the client
knows of (`Delivering`) follows the session's state unless the session is `disturbed`. That Naryo has no other one
holds only if the session is not `replaced` either: a request that runs alone corrects the former, but nothing corrects
the latter, and finding 5 is a session that nothing disturbs and that is still delivered to.

### `EgressClient`: what the Naryo client promises

The abstract specification between the two levels of the client. A call
changes the broadcasters of its session in one step when it returns: `Provision`,
`GiveUp`, `Detach`, `Take` and `Release`. `Egress` uses the client within it
(`Egress!Contract`), and `NaryoClient` implements it
(`NaryoClient!Contract`); both are proved. `NaryoClient` has the mapping in four functions: `known`
is to have an entry; `handle` and `naryo` are the broadcaster in the entry and those at Naryo,
without what the call that holds the mutex has changed so far; `taken` is what the stops took over.
The contract is what the two share, and it allows more than `Egress` does: no behaviour of `NaryoClient` is said to be
one that `Egress` has. `Egress` takes the outcomes of a call from the same lines, all at once.

### `SessionLifecycle`: what all parts take a session to be

`Billing`, `Egress` and `Records` each model the requests and the pass from another side, and each leaves out what
the others have. `SessionLifecycle` is what they must agree on: the state of a session, its payment stream, the
units it was charged and the units not yet reported, changed by `Create`, `Run` (a start or a resume),
`SetStream`, `Pause` (a request's or the pass's), `Stop` and `Charge`, each from the states that the code's updates
allow. Each of the three implements it (`ImplementsLifecycle`), and each does so for a reason of its own. In `Billing` requests were admitted on an older
state, and look at the state again. In `Egress` a start sets the state long after it looked
at it, and may do so since it keeps the store's mutex while Naryo works. In `Records` a stop waits for Naryo between
its `Get` and its `Update`, and updates whatever it then finds.

`Billing` maps all four variables to its records. `Egress` has no money and no stalled stream: charges are 0 and the stream is
on while the session runs. `Records` has sessions that do not exist yet, whose state is mapped to `"absent"`.

### `FilterPlan`, `NaryoClient`: the client, exchange by exchange

`Plan` is `resolvePipelineFilterPlan`: the first topic of the list, else the default
topic, else the first contract, else all events if that is allowed. A plan is its
key. `Unserved` is the report of the entries that it leaves out.

`NaryoClient` has, at Naryo, the broadcasters, filters and configurations of the ingest
endpoint, and in the client an `entry` for each session (`httpSessState`), the `call` that
holds the mutex, and `removing`, the entries that stops took out of the map. A
call of `EnsurePipeline` is `EnsureBegins`, then a step at `config`, one at `filter` and
one or two at `broadcaster`. An exchange is one step: the request, the polling of its
operation and the listings around it. A list without a plan is refused, so it begins nothing. An exchange succeeds, or fails with or without
having taken effect, at most `MaxFailures` times. The deletions of a stop
are steps of their own, in between those of other calls. `ResumeEgress` is an
`EnsurePipeline` that counts differently.

What is found again is found as in the code: a configuration by its endpoint
(`ConfigAttached`), a filter by its name, which has the session and the kind but not
the topic (`SameName`), a broadcaster by path, target and configuration
(`Found`). `mislaid` names the sessions where a filter's deletion
failed, or its posting did halfway, or the listing that shows it failed, or it was posted while a stop had
another of that name to delete: the causes, and the run shows the only ones, that break the tie between
what the client knows and what Naryo has. `ScopeKept` says of these sessions too that their events do not come by a
filter of another session or of the other kind.

`ReportIsTrue` compares the dashboard's report with what the session's broadcaster passes. The report is computed from the
session's list alone (`observability.go:300`), so the property has two exemptions, which are in its
formula: after a fallback to all events, the report names subscriptions that are served; and after a reconfigure to
another plan, it is of the plan to come until the next start or resume. See the observations under *Findings*.

### `Platform`, `EventInbox`, `AuditTrail`, `Records`: what is kept and told

`Platform` is what the two others share: the sessions that exist and the activity
feed, a list cut to `MaxEntries` (`Record`).

`EventInbox` has the webhook calls. `Ingest` is `AppendNaryoEvent` under the store's
mutex; `Tell` is the entry in the feed that follows it, when any number of other
steps, a redelivery of the same event among them, may have come in between. The list
is cut to `Limit`, the set of seen events never.

`AuditTrail` has the requests and the billing pass as writers. A writer changes a session and
then has a `script` of entries to tell, which `TellsNext` takes one by one, in the order of the code:
feed first, except for a top-up; the end of a stream before the stop; a
summary in the pass, an automatic pause to the log in the pass and to the feed
after `PauseEgress`, if that succeeded. `Enqueue` drops when the queue is full, and
`SubmitTakes`, `SubmitLands` and `SubmitFails` are the submitter. Of the topic the model keeps
what a reader makes of it: last state, last stream, sum of the reported units.
Money is reduced to units charged; when a charge is due, or refused, is a
choice here and exact in `Billing`.

History variables: `lostUnits` and `gaps` (units and sessions of dropped events),
`blurred` (sessions on which calls overlapped, whose changes may be told in
another order than they were made), `unfed` (automatic pauses whose `PauseEgress` failed,
which the feed never hears of). A start, pause or resume that runs alone clears the last two.

`Records` composes the two over one store and one feed.

### Proof modules

`BillingProofs`, `EgressProofs`, `EgressAgreementProofs`, `NaryoClientProofs`,
`NaryoContractProofs`, `RecordsProofs` and `AuditTrailProofs` have the theorems; `FoldLemmas` has what they
need of folds and of induction over the numbers. See *Proofs*.

### `MCBilling`, `MCEgress`, `MCNaryoClient`, `MCRecords`

The instances for TLC: the worth of a receipt, the lists of subscriptions, and symmetry. Sessions are symmetric
in `Billing` and `NaryoClient`; requests and broadcasters are symmetric in `Egress`, ids in
`NaryoClient` (of configurations, those that are not left over) and topics too, requests, deliveries and events in `Records`; no operator
picks one of them by order. The runs that check liveness use no symmetry.

### Mutated definitions

A definition named after another with a suffix (`MeterAfterChargeSameBucket`,
`DetachedForgotten`, ...) is a plausible bug in that other definition. Nothing uses
it. Each shows that a property is sensitive to the code: with the mutated definition
in place of the original, TLC finds that property violated.

## Runs

| Run | Checks | Shows |
|---|---|---|
| `billing` | `TypeOK`, `BalancesConserved`, `RuntimeAccounted`, `DebitsMatchCharges`, `CarriesLessThanUnit`, `SummariesComplete`, `BilledOnlyWhileStreaming`, `StopIsFinal`, `ImplementsLifecycle` | two sessions, of one agent or of none, with a payment whose receipt is presented any number of times: no interleaving of requests, top-ups and billing passes loses, repeats or holds back money, runtime or reported units, and each session stays on the lifecycle |
| `billing_live` | `UnfundedIsPaused`, `PausedOnlyWithoutFunds` | a session without funds leaves the running state or is funded, in the end; and a pause for lack of funds is made only if the retry could not be paid |
| `billing_restart` | `ChargesReachLedger` (violated) | finding 1 |
| `egress` | `TypeOK`, `AgreeUnlessDisturbed`, `BroadcastersTracked`, `ImplementsContract`, `ImplementsLifecycle` | two requests at a time and the billing pass, with a failing call: every return releases its mutexes, a request that runs alone sets right the broadcaster that the client knows of, no broadcaster gets lost other than by the named causes, the client is used within its contract, and the session stays on the lifecycle |
| `egress_live` | `RequestsAnswered`, `PausesReachNaryo` | the two mutexes are never waited for in a cycle, as long as nothing stops and Naryo answers |
| `egress_stop` | `RequestsAnswered` (violated) | finding 2 |
| `egress_resume` | `RunningIsDelivered` (violated) | finding 3 |
| `egress_created` | `DeliveredIsRunning` (violated) | finding 4 |
| `egress_replan` | `PausedIsSilent` (violated) | finding 5 |
| `naryo` | `TypeOK`, `ScopeKept`, `FiltersTracked`, `OwnConfigurationKept`, `AppendKeepsTopic`, `ReportIsTrue`, `ImplementsContract` | two sessions whose plans change (a topic, another topic, a contract, nothing), a stop beside other calls, a failing exchange: what the client holds is what Naryo delivers and the dashboard reports, filters and configurations stay and go with their sessions, all but for the named causes, and the callers see what the contract says |
| `naryo_shared` | `SharedConfigurationKept` (violated) | finding 6 |
| `records` | `TypeOK`, `InboxIsLatest`, `EachToldOnce`, `AuditTellsState`, `FeedTellsState`, `AuditConservesUnits`, `ImplementsLifecycle` | two requests, two webhook calls, the billing pass and the submitter: events are kept and told once; whatever overflows or fails, the log and the feed tell the truth but for the named losses, no unit is reported twice, and the session stays on the lifecycle |

### Bounds

`Billing` counts, so its instances are bounded by guards:

- `MaxBilled`: the billing loop begins no new pass when a session that is not
  stopped has been billed for this many seconds. Five seconds in `billing` are
  five debit windows (`DebitInterval = 1`), with a rate of 2 per 3 seconds, so that
  windows leave remainders of 0, 1 and 2, and some carry no unit. Sixteen seconds in
  `billing_live` let the whole balance be spent, refused, retried and topped up.
- `LastStart`: no session is started or resumed once it was billed more. It is below
  `MaxBilled`, so that in `billing_live` a pass is not disabled by the bound before a
  session that just started has used its funds up.
- `MaxInFlight`: start and resume requests between check and update. One is
  enough for a check that is stale in the update, as any other action, of
  the other session too, can come between.
- `MaxUnreceipted`: units credited without a receipt. Zero in `billing`, where
  the receipt is the interesting credit, and 1 where one session runs, so that a
  top-up can come at any time in the grace period.
- `Grace = 2`, `SummaryWindow = 1`: long enough for a second inside and one at the end.
  `SecondsPerMinute = 3` stands for 60.

`Egress` is finite apart from ids of broadcasters and failures:

- `Broadcasters`: a broadcaster is made only if an id is left that Naryo, the client
  and the calls do not hold. Three ids are one in place, one being
  deleted by a stop, and one new. When none is left `EnsureCreates` waits; the liveness runs
  have three as well, and TLC finds that it never waits for ever.
- `MaxFailures = 1`: one failure or lost answer at any place, after which everything
  works. `egress_live` has all requests but stops, and no failure. What a failure could add
  to it is a mutex that stays locked, and `MutexesReleased` proves, for any number of failures,
  that no call returns with one.
- `Requests`: two at a time, besides the billing pass; all the divergences that were
  found need two actors.

`NaryoClient`:

- two sessions, two ids for broadcasters and for filters, and three for configurations, one of
  them left over from before: one each in use and one in the way. When no id is left, the step that
  needs one waits.
- `MaxFailures = 1` and `MaxStops = 1` in `naryo`: one failing exchange, and one stop whose deletions are under way,
  beside any other calls. The theorems of `NaryoClient` hold for any number of both.
- `Requested`: a topic after a contract and before another topic, a contract, and nothing,
  in six lists that ask for four plans: the two topics, the contract, and all events.

`Records`:

- `MaxMoves = 4`: changes of the session, top-ups, charges and stored events.
  They are enough for create, start, charge and summary or pause, and for each request against
  each. Five take TLC four minutes (5.6 million states) and pass too.
- `QueueSize = 1`, `MaxEntries = 2`, `Limit = 1`: each list overflows within the
  moves. The code has 256 for each; what matters is the cut.
- `MaxFailures = 1`: one failed submit or `PauseEgress`.
- one session. Others can only fill the queue and the feed, which the session's own
  events do as well.

`egress`, `egress_stop`, `naryo` and `naryo_shared` are checked without the deadlock check, because
a stop does block the system (finding 2), and `records` because its moves run out. All other runs check it.

### Fairness

`Billing`: weak fairness of the clock (`Elapse`), of the billing loop (`TickBegin`) and
of its visits (`TickSession`). `RunEach` runs for the process's life on a ticker. No
fairness is assumed of top-ups or requests. In `billing_live` the session may also be
paused, stopped or topped up at any time.

`Egress`: strong fairness of the steps of each request and of the pass. A call
that waits for a mutex is enabled again and again, not continuously; Go's `sync.Mutex` and
`RWMutex` starve no goroutine (a waiter of more than a millisecond is handed the lock). A call to
Naryo ends in success or failure. That is an assumption about Naryo: `waitOperation`
polls a pending operation for as long as the request's context lives.

`NaryoClient` and `Records` are checked for safety only.

## Findings

1. `internal/pipeline/service.go:303`. `Start` from paused sets `CommittedDebitSeq` to 0.
   The ledger has seen the next bucket numbers and takes the charges for repetitions:
   `ChargedUnits` and the summaries grow, and no balance pays. The proofs say precisely how
   far this goes: `debited` is never more than `charged`, and equal for every session that
   was never started from paused.
2. `internal/naryo/http_client.go:339`. `StopPipeline` calls `clearErr` with the mutex
   it locks held. The stop of a provisioned session is never answered. The
   next start then waits with the store locked.
3. `internal/pipeline/service.go:666`. `PauseEgress` after the billing loop, against
   a resume in between: the session is running and billed, and Naryo has no broadcaster
   for it.
4. `internal/pipeline/service.go:392`. A resume provisions before it checks the state: a
   session that was created only is refused, and delivered to from then on.
5. `internal/naryo/http_client.go:159`. A broadcaster of another plan is forgotten, not
   deleted: no later pause or stop deletes it.
6. `internal/naryo/http_client.go:476`. A session that takes another session's configuration
   marks itself as sharing it; the owner is not marked, and its stop deletes the configuration from
   under the other.

Smaller observations are not runs. `docs/PIPELINE_EVENT_ROUTING.md:33` suggests
"stop → start" after a reconfigure, but `Start` refuses a stopped session.
A stop leaves the pending summary unreported: `SummariesComplete` counts those units
as waiting, and after a stop they wait for ever. A top-up that is presented again
credits nothing, but is told to the log and the feed again (`service.go:200`). Two
requests on one session that overlap may be told in the other order than they took
effect (`blurred`), and the log then ends with a state that the session does not have.
A stop that overlaps a start or resume may delete the broadcaster, or the filter, that the other found and took for its own
(`replaced`, `mislaid`).
After a fallback to all events the dashboard's report still names the subscriptions that the plan would have left out,
and after a reconfigure it is of the new list while the broadcaster of the old one goes on
(`internal/http/observability.go:300`). A failed call can leave two broadcasters that the client does not know
of (`internal/naryo/http_client.go:244`, `:514`).
`docs/PIPELINE_EVENT_ROUTING.md:27` leaves open that the default topic comes before the
contracts of the session's own list; `Plan` has the order of the code.

## Proofs

### Sessions and money

`BillingProofs` proves, for all agents, sessions, receipts, rates, intervals,
grace periods and bounds that satisfy `LedgerAssumption` and `BillingAssumption`
(names are distinct, the numbers are natural, those that the code forces to be
positive are):

| Theorem | Statement |
|---|---|
| `TypeCorrect` | `Spec => []TypeOK`: among the rest, no balance is ever negative |
| `AccountingInvariant` | `Spec => []Accounting`, the inductive invariant |
| `RuntimeAccountedCorrect` | `Spec => []RuntimeAccounted` |
| `DebitsMatchChargesCorrect` | `Spec => []DebitsMatchCharges` |
| `SummariesCompleteCorrect` | `Spec => []SummariesComplete` |
| `StopIsFinalCorrect` | `Spec => StopIsFinal` |
| `PausedOnlyWithoutFundsCorrect` | `Spec => PausedOnlyWithoutFunds` |
| `BilledOnlyWhileStreamingCorrect` | `Spec => BilledOnlyWhileStreaming` |
| `BalancesConservedCorrect` | `Spec => []BalancesConserved` |
| `CarriesLessThanUnitCorrect` | `Spec => []CarriesLessThanUnit` |
| `BillingWithinLifecycle` | `Spec => ImplementsLifecycle` |

`TypeOK` is inductive alone: the one step that lowers a balance is an accepted charge
with a new key, and its guard compares the balance with the units.

The next three are not. `RuntimeAccounted` speaks of sessions with an agent, and a
session gets its agent when it is created: that nothing was metered until then is
`BlankWhileFresh` (sessions that are absent or created have empty meters).
`DebitsMatchCharges` needs the next debit of a session to have a key that was not used, or
else the ledger would take nothing: `KeysAreCommitted` says that the keys of a session are numbers up
to its `CommittedDebitSeq`. A start from paused breaks exactly this, so both exempt
`restarted`. For a start from created, `BlankWhileFresh` says that the sequence is 0 anyway.
`Accounting` is the conjunction.

The proof of `AccountingStep` groups the actions by what they disturb: those that leave the
accounts alone (`AccountsUnchanged`), those of the pass that meter without a charge
(`AccountingUncharged`, `AccountingMetered`), the charge (`DebitIsNew`,
`AccountingCharged`) and the start (`AccountingStarted`). `Settlement` is the
arithmetic of the division by 60: the units and the remainder make up the accrual.

The three action properties follow from `TypeOK`. `LifecycleStep` says what a step can do
to a session's lifecycle: it keeps a stop and does not set `AutoPausedForFunds`
(`Ordinary`), or it is the refused retry. `BillingStep` says that a step leaves a
session's runtime and charges alone or found it running with its stream active.

`BalancesConserved` compares a balance with two sums: of the payments whose receipts were
taken, and of the debits of the agent's sessions. `Conservation` adds to `Accounting`
what the sums need: they run over finite sets (`Finitely`, since any step adds one session or one receipt
at most, so the constants may be infinite), and a session that does not exist has no agent (`Unowned`),
so that a create brings a summand that is 0. `SumRaise` and `SumAdd` say what becomes of a sum when
one summand grows or one is added. They rest on `SumUnroll`, which shows that the fold of the community modules
takes its elements one by one. One lemma for each way in which money moves
(`TopUpBalances`, `UnreceiptedBalances`, `ChargeBalances`, `CreateBalances`) does the rest.

`CarriesLessThanUnit` is inductive with the types: a second adds the rate to the accrual and to what the window
accounts for alike (`AccruingCarries`), a settlement leaves a remainder of the division (`SettlingCarries`), and a start clears both
(`StartCarries`); that a resume clears neither is why a pause in the middle of a window costs nobody anything.

### Requests, mutexes and broadcasters

`EgressProofs` proves, for any number of sessions, of requests in flight, of broadcasters
and of failures, under `EgressAssumption` (names are distinct):

| Theorem | Statement |
|---|---|
| `TrackingInvariant` | `Spec => []Tracking`, the inductive invariant |
| `MutexesReleased` | `Spec => []TypeOK`: a mutex is held by the call in its critical section and by no other |
| `BroadcastersTrackedCorrect` | `Spec => []BroadcastersTracked` |

`BroadcastersTracked` says that what Naryo has for a session is in the client's entry
or with a stop. For the step of `EnsurePipeline` that makes a broadcaster, it gives that
there was none (`NewIsTracked`), since the one in the entry is gone and no stop has
one. It is not inductive by itself: if the client could have an id outside of
an entry, the stop of a session without an entry would drop that id, and if a call held on to a
broadcaster after the deletion, a new request in that goroutine would. `CallsConsistent`
excludes both. That an entry which is being provisioned is not dropped meanwhile follows
from the client's mutex (`FreeClient`), so the mutex discipline is part of the induction.
The proof has one lemma for each kind of step: moves outside of the client
(`QuietStep`), returns from it (`ClientLeft`), stops (`StopMoves`), and arrivals and the
billing pass (`OutsideStep`).

### Store and client in step

`EgressAgreementProofs` proves, under `EgressAssumption`:

| Theorem | Statement |
|---|---|
| `AgreeUnlessDisturbedCorrect` | `Spec => []AgreeUnlessDisturbed` |

The property says two things of the times when nobody works on a session that is not `disturbed`: that the client's
broadcaster is at Naryo if and only if the session is running, and that Naryo has no other, unless the session is
`replaced`. The second follows from the first with `BroadcastersTracked`, as nothing is with a stop then
(`QuietTracked`). For the first (`QuietSettled`) the induction has to say what holds in between. `Agreement` does it: a request that has its session for itself (`Single`) has
changed nothing yet, so that they still agree (`Untouched`); or has provisioned, and
the session is delivered to (`Provisioned`); or has withdrawn the broadcaster (`Withdrawn`). A request
that shares its session has it among the `disturbed`. A session whose automatic pause is still
owed to Naryo is not running (`PauseAgrees`). `OnPath` says that a call is at a step of its own operation,
without which a pause could find itself at the end of a start. `Tracking` gives the types and
that an id is only in an entry: the stop of a session without one has nothing to delete.
`RequestMoves` and `TickerMoves` carry everything that is not about the session of the step; each action adds what it
does to its own session, and arrivals and automatic pauses, which take `alone` from others, are
proved by themselves.

### One lifecycle

| Theorem | In | Statement |
|---|---|---|
| `BillingWithinLifecycle` | `BillingProofs` | `Spec => ImplementsLifecycle` of `Billing` |
| `EgressWithinLifecycle` | `EgressProofs` | `Spec => ImplementsLifecycle` of `Egress` |
| `RecordsWithinLifecycle` | `AuditTrailProofs` | `Spec => ImplementsLifecycle` of `Records` |

Each step of the three maps to one of `SessionLifecycle` or to a stutter, for every value of the constants. `Billing` and `Records` need that only a
running session has an active stream (`StreamsRun`): so a create finds none, and the stop of a stopped session changes nothing. In
`Records` the session of a stop on its way is one that exists (`Stops`, from `AuditInv`).

For `Egress` the step to worry about is the end of a start, which sets the state to running without looking at it again.
`FoundHolds` is the invariant that makes it a step of the lifecycle: the session of a start that is past its check is in
a state that it may start from. `StateSteps` shows why it holds: a step changes a state only when the
store's mutex is free, or is the start's that gives it back, and `TypeOK` says that the mutex is the start's as long as
it is at Naryo. The invariant is about all starts at once only because the mutex lets one in.

### The contract of the client

`EgressProofs` proves too, under `EgressAssumption`:

| Theorem | Statement |
|---|---|
| `EgressWithinContract` | `Spec => ImplementsContract`: every behaviour of `Egress` is one of `EgressClient` |

`known`, `handle` and `naryo` are mapped to themselves, `taken[s]` to what the stops of `s` hold. The proof uses
`Tracking`: a call that makes a broadcaster has an entry (`known`), and the id is not
with a stop. The steps fall into those that the contract does not see
(`MovesUnseen`) and one lemma for each of its actions.

### The client, exchange by exchange

`NaryoClientProofs` and `NaryoContractProofs` prove, for any sessions, ids, plans, lists of
subscriptions, stops and failures under `FilterPlanAssumption`, `NaryoClientAssumption` and `NoneAssumption`
(`None` is no id and no record; topics, contracts and the names for all events and for no plan differ, as the
filters of the code do in their kind; `AllEvents` is no filter's id; what is requested are lists of
subscriptions):

| Theorem | Statement |
|---|---|
| `ShapeInvariant` | `Spec => []Shape`, types and the call that holds the mutex |
| `TypeCorrect` | `Spec => []TypeOK` |
| `OwnConfigurationKeptCorrect` | `Spec => []OwnConfigurationKept` |
| `FiltersTrackedCorrect` | `Spec => []FiltersTracked` |
| `ScopeKeptCorrect` | `Spec => []ScopeKept` |
| `AppendKeepsTopicCorrect` | `Spec => []AppendKeepsTopic` |
| `ReportIsTrueCorrect` | `Spec => []ReportIsTrue` |
| `ContractImplemented` | `Spec => ImplementsContract`: every behaviour of `NaryoClient` is one of `EgressClient` |

`Shape` adds to the types what a call of `EnsurePipeline` has got so far: its session has an entry
without a broadcaster, with a configuration once it is past that step, and with a filter when it
is to post a broadcaster for one.

`OwnConfigurationKept` follows from `Ownership`: a configuration that a session made is nobody
else's own, is none of those left over, and is not with a stop. `NoneOwned` covers the steps that change nothing of this, and
the two that do (a configuration is made; a stop takes an entry) have their own lemmas.

`Scoping` says of a session that is not `mislaid` that Naryo has no filter of it but the one in
its entry and those that stops still have to delete (`InScope`). `FiltersTracked` and the last part of
`ScopeKept` follow. That a filter found by name is the entry's own depends on it, as the name
does not have the topic. The parts of `ScopeKept` that hold of `mislaid` sessions too follow from `EntriesMatched` (the
filter in an entry is of its plan's kind, and the broadcaster refers to it, or to all events if that is the plan)
and `HeldApart` (its id is no other filter's). They are inductive whatever fails, as what an entry takes over
was looked up by a name that has the session and the kind (`EntriesFollow`).

`AppendKeepsTopic` is about the choice of a plan alone: the first topic of a list is the first
topic of every longer one (`FirstNamedOfLonger`). `ReportIsTrue` joins that choice, which is all that the
report looks at, to what Naryo does: `FiltersApart` says that a filter's id belongs to one filter, and
`PassesPlan` that a broadcaster in scope passes exactly the plan of its entry: the two exemptions are where that is
not the list's.

For the contract, `EnsureForms` sorts the exchanges of a call by what they do to broadcasters: it goes
on, gives up or succeeds, and has made a broadcaster or none. `Identity` is the invariant: an id
belongs to one broadcaster, also when only the client or a stop still has it; a stop has broadcasters of its own session; and
what the call has made is at Naryo, was not known before, and is with no stop. With it, what the
mapping hides of a running call is exactly what the call has made, and what shows when it returns
is one step of the contract.

### Inbound events

`RecordsProofs` proves, for any sessions, events, webhook calls and limits under
`EventInboxAssumption`, beside any requests and passes:

| Theorem | Statement |
|---|---|
| `InboxInvariant` | `Spec => []InboxInv`, the inductive invariant |
| `InboxKeepsLatest` | `Spec => []InboxIsLatest` |
| `InboxToldOnce` | `Spec => []EachToldOnce` |

`InboxInv` adds to the two properties that `seen` is exactly what was accepted, that
`inbox` is the end of what was accepted, and that an accepted event is told or held by
exactly one call. Without the first, a redelivered event could be appended again; with it, a new
event is new to the list of accepted ones. `RecentOfAppend` is the fact about the
cut: the last `n` of a list whose end was cut before are the last `n` of the whole list.

### The audit log and the feed

`AuditTrailProofs` proves, for any sessions, requests in flight, capacities and failures under
`AuditTrailAssumption` and `EventInboxAssumption` (names are distinct, the bounds are natural, and the queue and the
lists have room for one):

| Theorem | Statement |
|---|---|
| `RecordsTypeCorrect` | `Spec => []TypeOK` |
| `AuditConservesUnitsCorrect` | `Spec => []AuditConservesUnits` |
| `TellingInvariant` | `Spec => []TellingInv`, the inductive invariant of the next two |
| `AuditTellsStateCorrect` | `Spec => []AuditTellsState` |
| `FeedTellsStateCorrect` | `Spec => []FeedTellsState` |

`AuditInv` adds to the types where everything is that is yet to be told: the scripts, the queue
and the event in hand are about sessions that the store has, only the pass tells of units, and one summary at a
time; a request whose stop is on its way has nothing to tell.

`Log` is a fold over the event in hand and the queue. `LoggedFirst` and `LoggedAppend` say that an event more
at either end is one more step of it, so taking an event from the queue or having it land leaves
`Log` alone (`LogTakes`, `LogLands`), and an enqueue is heard (`LogAppends`). `LoggedAlike` says that two logs
that differ by an event's units in one session still do after any events: an event lost in the middle is
missed by its own number of units and by its own session only (`LogFails`). With that, each step moves units from one
summand of `AuditConservesUnits` to another.

Neither `AuditTellsState` nor `FeedTellsState` is inductive: both speak of the times when nothing of
a session is on its way. `TellingOf` says what holds in between, for a session that is not `blurred`: all that is
yet to be told of it is what it has come to (`ToldTrue`); a stop on its way is alone, and the stream that it read is still
the session's (`StopsAlone`); a session whose egress the pass has yet to take away is paused (`PausedAlone`); the log
tells the state, unless an event that does is still in a script (`LogTrue`), the stream likewise; and so does the feed
(`FeedTrue`), except for a pause that it is to hear of at the end of the pass. The state and the stream are apart since a
stop of a session without a stream tells the log of the state only. `TellingKept` carries this through the steps of
others; `RecordedFed` says what the last telling entry of a bounded list is after one more entry and the cut.
`ShownTells` then follows `ActivityForSession` through its scan: the first row that tells a value is the last entry of the
session that does, as the scan's limit is no smaller than the list.

The induction theorems of the library take operators, which the provers cannot instantiate. `FoldLemmas` states
induction over the numbers with a set instead (`SetInduction`, as the least counterexample), and gets from it that there is a
function that satisfies a fold's equation (`FoldExists`) and that it runs from element to element (`FoldRun`).

### Model-checked only

Liveness under fairness (`UnfundedIsPaused`, `RequestsAnswered`,
`PausesReachNaryo`) is out of reach of the provers; these are checked on small instances only, and so are the six
violations, which are traces. Every other property of a passing run is a theorem.

## Plan

Done: `Ledger`, `Billing`, `Egress`, `EgressClient` with `FilterPlan` and `NaryoClient`, `Platform`,
`EventInbox`, `AuditTrail` and `Records`, `SessionLifecycle` over three of them, with the proofs of their safety properties. What is left, in this order:

1. Liveness of `Records`: what was told reaches the topic if submits return.
2. The create that follows the automatic credit of a development setup (`handlers.go:59`): the credit alone is
   `TopUpUnreceipted`, which may come at any time.

## Not modelled

- Formatting, parsing, logging, statistics, and the read-only observability endpoints with
  the dashboard.
- The external services: Naryo beyond its broadcasters, filters and configurations, the x402
  facilitator, Hedera. They appear as choices of outcome. The x402 gate is a route and a price given to an external
  library; the verification of a deposit reads a record of the network and keeps no state, and what it
  accepts is a top-up.
- A Naryo client that is configured to skip the egress (`skipEgressProvision`, `http_client.go:134`): it exchanges
  nothing and counts successes.
- The MCP tools, which call the same service operations, and the demo clients.
- The configuration: read once at start; its numbers are the modules' constants.
- Restarts. The program persists nothing; after a restart its sessions are gone, and what
  Naryo has for them stays, as nothing knows of it any more.
- The sharing of a session's `Config` map between copies of the session (`state_store.go:39`),
  a data race between a reader and `Reconfigure`: the models treat the configuration as a
  plan that changes atomically.
- Overflow of 64-bit counters, which the rates of the program reach in no lifetime.

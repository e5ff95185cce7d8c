----------------------------- MODULE AuditTrail ------------------------------
(***************************************************************************)
(* What the platform tells of its sessions: the activity feed, read by     *)
(* dashboards, and the audit log on an HCS topic (internal/hcs/logger.go,  *)
(* internal/hcs/submit.go).                                                *)
(*                                                                         *)
(* A request, or the billing pass, changes a session under the store's     *)
(* mutex and tells of it after that, entry by entry, without a lock over   *)
(* the whole.  An audit event goes to a queue that one goroutine submits   *)
(* from, one event at a time; it is dropped when the queue is full, and    *)
(* when its submit fails.                                                  *)
(*                                                                         *)
(* Left out: Naryo's part of a request (module Egress), which is only a    *)
(* reason to fail, and what a charge costs whom (module Billing): a visit  *)
(* of the pass charges one unit, pauses the session, or neither.  A submit *)
(* that fails after its event has reached the topic is one that succeeds.  *)
(* Of the topic's events only what a reader makes of them is kept: the     *)
(* state and the stream last told of, and the sum of the reported units.   *)
(***************************************************************************)
EXTENDS Platform, SequencesExt

CONSTANTS
    Requests,     \* HTTP requests in flight at a time, one goroutine each
    Ticker,       \* the goroutine of RunBillingLoop
    NoStop,
    QueueSize,    \* capacity of hcsQueue
    MaxFailures   \* bound: submits and PauseEgress calls of the pass that fail

ASSUME AuditTrailAssumption ==
    /\ Ticker \notin Requests
    /\ NoSession \notin Sessions
    /\ QueueSize \in Nat \ {0}
    /\ MaxFailures \in Nat

Writers == Requests \union {Ticker}

VARIABLES
    state,       \* State of each session
    stream,      \* PaymentStreamActive
    charged,     \* ChargedUnits
    unreported,  \* SummaryPendingUnits
    stopping,    \* stops on their way from Get to Update, and the stream that they read
    script,      \* what each goroutine has yet to tell
    todo,        \* sessions that the billing pass has yet to visit
    pauseIDs,    \* sessions it paused, whose PauseEgress is to come
    queue,       \* hcsQueue
    inHand,      \* the event that hcsSubmitLoop is submitting, if any
    topic,       \* what the audit log on the topic says of each session
    lostUnits,   \* history: units in summaries dropped or not submitted
    gaps,        \* history: sessions with an event dropped or not submitted
    blurred,     \* history: sessions where calls overlapped
    unfed,       \* history: sessions whose pause the feed was not told of
    failures

logVars == <<queue, inHand, topic, lostUnits, gaps>>
sessionVars == <<sessions, state, stream, charged, unreported>>
passVars == <<todo, pauseIDs>>
historyVars == <<blurred, unfed>>
auditVars == <<state, stream, charged, unreported, stopping, script, passVars, logVars,
               historyVars, failures>>

AuditKinds == (Kinds \ {"naryo_event"}) \union
    {"payment_stream_terminated", "billing_summary", "start_rejected_insufficient_prepaid"}

States == {"created", "running", "paused", "stopped"}

Event == [kind: AuditKinds, on: Sessions \union {NoSession}, units: Nat]

Said == [state: States \union {"none"}, stream: BOOLEAN, units: Nat]

Feed(kind, s) == [to |-> "feed", kind |-> kind, on |-> s, units |-> 0]
Audit(kind, s, units) == [to |-> "audit", kind |-> kind, on |-> s, units |-> units]

Item == [to: {"feed", "audit"}, kind: AuditKinds, on: Sessions \union {NoSession}, units: Nat]

\* Types, and that neither list outgrows its capacity.
AuditTypeOK ==
    /\ PlatformTypeOK
    /\ state \in [Sessions -> States]
    /\ stream \in [Sessions -> BOOLEAN]
    /\ charged \in [Sessions -> Nat]
    /\ unreported \in [Sessions -> Nat]
    /\ stopping \in [Requests -> [on: Sessions, streamWasActive: BOOLEAN] \union {NoStop}]
    /\ script \in [Writers -> Seq(Item)]
    /\ todo \subseteq sessions
    /\ pauseIDs \subseteq sessions
    /\ queue \in Seq(Event)
    /\ Len(queue) <= QueueSize
    /\ inHand \in Seq(Event)
    /\ Len(inHand) <= 1
    /\ topic \in [Sessions -> Said]
    /\ lostUnits \in [Sessions -> Nat]
    /\ gaps \subseteq sessions
    /\ blurred \subseteq sessions
    /\ unfed \subseteq sessions
    /\ failures \in 0 .. MaxFailures

AuditInit ==
    /\ state = [s \in Sessions |-> "created"]
    /\ stream = [s \in Sessions |-> FALSE]
    /\ charged = [s \in Sessions |-> 0]
    /\ unreported = [s \in Sessions |-> 0]
    /\ stopping = [r \in Requests |-> NoStop]
    /\ script = [w \in Writers |-> <<>>]
    /\ todo = {}
    /\ pauseIDs = {}
    /\ queue = <<>>
    /\ inHand = <<>>
    /\ topic = [s \in Sessions |-> [state |-> "none", stream |-> FALSE, units |-> 0]]
    /\ lostUnits = [s \in Sessions |-> 0]
    /\ gaps = {}
    /\ blurred = {}
    /\ unfed = {}
    /\ failures = 0

-----------------------------------------------------------------------------
(* Requests *)

\* Something of session s is still to be told, or a call on it is under way.
Busy(s) ==
    \/ \E w \in Writers : \E i \in DOMAIN script[w] : script[w][i].on = s
    \/ \E r \in Requests : stopping[r] # NoStop /\ stopping[r].on = s
    \/ s \in pauseIDs

IdleRequest(r) == script[r] = <<>> /\ stopping[r] = NoStop

Tells(w, items) == script' = [script EXCEPT ![w] = items]

Blurs(s) == blurred' = IF Busy(s) THEN blurred \union {s} ELSE blurred

\* A change that is told with both the state and the stream, undisturbed,
\* puts what is told right again.
Clears(s) ==
    /\ blurred' = IF Busy(s) THEN blurred \union {s} ELSE blurred \ {s}
    /\ unfed' = unfed \ {s}

Becomes(s, st, active) ==
    /\ state' = [state EXCEPT ![s] = st]
    /\ stream' = [stream EXCEPT ![s] = active]

\* Create: Put, the feed, the audit log.
Create(r, s) ==
    /\ IdleRequest(r)
    /\ s \notin sessions
    /\ Moves
    /\ sessions' = sessions \union {s}
    /\ Tells(r, <<Feed("pipeline_created", s), Audit("pipeline_created", s, 0)>>)
    /\ UNCHANGED <<feed, state, stream, charged, unreported, stopping, passVars, logVars,
                   historyVars, failures>>

\* A request that changes a session, once its Update has returned, and tells
\* the feed and then the audit log.
Transition(r, s, from, st, active, kind) ==
    /\ IdleRequest(r)
    /\ s \in sessions
    /\ state[s] \in from
    /\ Moves
    /\ Becomes(s, st, active)
    /\ Tells(r, <<Feed(kind, s), Audit(kind, s, 0)>>)
    /\ Clears(s)
    /\ UNCHANGED <<sessions, feed, charged, unreported, stopping, passVars, logVars, failures>>

Start(r, s) == Transition(r, s, {"created", "paused"}, "running", TRUE, "pipeline_started")

Pause(r, s) == Transition(r, s, {"running"}, "paused", FALSE, "pipeline_paused")

Resume(r, s) == Transition(r, s, {"paused"}, "running", TRUE, "pipeline_resumed")

\* A start or a resume that the agent's balance does not allow.
Reject(r, s) ==
    /\ IdleRequest(r)
    /\ s \in sessions
    /\ Moves
    /\ Tells(r, <<Audit("start_rejected_insufficient_prepaid", s, 0)>>)
    /\ UNCHANGED <<sessionVars, feed, stopping, passVars, logVars, historyVars, failures>>

\* Stop reads the stream before it calls Naryo ...
StopReads(r, s) ==
    /\ IdleRequest(r)
    /\ s \in sessions
    /\ Moves
    /\ stopping' = [stopping EXCEPT ![r] = [on |-> s, streamWasActive |-> stream[s]]]
    /\ Blurs(s)
    /\ UNCHANGED <<sessionVars, feed, script, passVars, logVars, unfed, failures>>

\* A mutated Stop: the end of the stream goes unsaid.
StopSaysNoStream(s, streamWasActive) ==
    <<Feed("pipeline_stopped", s), Audit("pipeline_stopped", s, 0)>>

StopSays(s, streamWasActive) ==
    (IF streamWasActive THEN <<Audit("payment_stream_terminated", s, 0)>> ELSE <<>>)
        \o <<Feed("pipeline_stopped", s), Audit("pipeline_stopped", s, 0)>>

\* ... and changes the session after it.  A stop of a stopped session is told
\* like any other.
StopCommits(r) ==
    /\ stopping[r] # NoStop
    /\ LET s == stopping[r].on IN
         /\ Becomes(s, "stopped", FALSE)
         /\ Tells(r, StopSays(s, stopping[r].streamWasActive))
    /\ stopping' = [stopping EXCEPT ![r] = NoStop]
    /\ UNCHANGED <<sessions, feed, charged, unreported, passVars, logVars, historyVars,
                   moves, failures>>

\* Naryo's client failed: the session stays as it is.
StopFails(r) ==
    /\ stopping[r] # NoStop
    /\ stopping' = [stopping EXCEPT ![r] = NoStop]
    /\ UNCHANGED <<sessionVars, feed, script, passVars, logVars, historyVars, moves, failures>>

\* SetPaymentStreamActive, told even when the stream is so already.
SetStream(r, s, active) ==
    LET kind == IF active THEN "payment_stream_started" ELSE "payment_stream_stalled" IN
    /\ IdleRequest(r)
    /\ s \in sessions
    /\ state[s] = "running"
    /\ Moves
    /\ Becomes(s, "running", active)
    /\ Tells(r, <<Feed(kind, s), Audit(kind, s, 0)>>)
    /\ Blurs(s)
    /\ UNCHANGED <<sessions, feed, charged, unreported, stopping, passVars, logVars, unfed,
                   failures>>

\* Reconfigure, of whose change nothing is told but that it was made.
Reconfigure(r, s) ==
    /\ IdleRequest(r)
    /\ s \in sessions
    /\ Moves
    /\ Tells(r, <<Feed("pipeline_reconfigured", s), Audit("pipeline_reconfigured", s, 0)>>)
    /\ UNCHANGED <<sessionVars, feed, stopping, passVars, logVars, historyVars, failures>>

\* CreditTopUp, of an agent: the audit log comes before the feed.
TopUp(r) ==
    /\ IdleRequest(r)
    /\ Moves
    /\ Tells(r, <<Audit("agent_top_up", NoSession, 0), Feed("agent_top_up", NoSession)>>)
    /\ UNCHANGED <<sessionVars, feed, stopping, passVars, logVars, historyVars, failures>>

-----------------------------------------------------------------------------
(* The billing pass *)

\* runBillingTick: the sessions that the store has at its beginning.
PassBegins ==
    /\ todo = {} /\ pauseIDs = {} /\ script[Ticker] = <<>>
    /\ todo' = sessions
    /\ UNCHANGED <<sessionVars, feed, stopping, script, pauseIDs, logVars, historyVars,
                   moves, failures>>

Visits(s) == s \in todo /\ script[Ticker] = <<>> /\ todo' = todo \ {s}

\* Not billed, or nothing charged yet.
PassSkips(s) ==
    /\ Visits(s)
    /\ UNCHANGED <<sessionVars, feed, stopping, script, pauseIDs, logVars, historyVars,
                   moves, failures>>

\* A mutated test: a session whose payment stream is stalled is charged too.
BilledAnyStream(s) == state[s] = "running"

Billed(s) == state[s] = "running" /\ stream[s]

\* A mutated summary: of the last charge alone.
SummaryOfCharge(s) == 1

SummaryUnits(s) == unreported[s] + 1

\* A charge, and with it a summary of the charges since the last one when the
\* summary window is over.
PassCharges(s) ==
    /\ Visits(s)
    /\ Billed(s)
    /\ Moves
    /\ charged' = [charged EXCEPT ![s] = @ + 1]
    /\ \/ /\ unreported' = [unreported EXCEPT ![s] = @ + 1]
          /\ UNCHANGED script
       \/ /\ unreported' = [unreported EXCEPT ![s] = 0]
          /\ Tells(Ticker, <<Audit("billing_summary", s, SummaryUnits(s))>>)
    /\ UNCHANGED <<sessions, state, stream, feed, stopping, pauseIDs, logVars, historyVars,
                   failures>>

\* The balance has run out: the audit log hears of the pause now.
PassPauses(s) ==
    /\ Visits(s)
    /\ Billed(s)
    /\ Moves
    /\ Becomes(s, "paused", FALSE)
    /\ pauseIDs' = pauseIDs \union {s}
    /\ Tells(Ticker, <<Audit("pipeline_paused", s, 0)>>)
    /\ Blurs(s)
    /\ UNCHANGED <<sessions, feed, charged, unreported, stopping, logVars, unfed, failures>>

\* A mutated end of the pass: the feed is not told.
PauseUnfed(s) == UNCHANGED feed

PauseFed(s) == Record("pipeline_paused", s)

\* The feed hears of it when Naryo's part is done too ...
PassPausedEgress(s) ==
    /\ todo = {} /\ script[Ticker] = <<>>
    /\ s \in pauseIDs
    /\ pauseIDs' = pauseIDs \ {s}
    /\ PauseFed(s)
    /\ UNCHANGED <<sessionVars, stopping, script, todo, logVars, historyVars, moves, failures>>

\* ... and not at all when that failed.
PassPauseEgressFails(s) ==
    /\ todo = {} /\ script[Ticker] = <<>>
    /\ s \in pauseIDs
    /\ failures < MaxFailures
    /\ failures' = failures + 1
    /\ pauseIDs' = pauseIDs \ {s}
    /\ unfed' = unfed \union {s}
    /\ UNCHANGED <<sessionVars, feed, stopping, script, todo, logVars, blurred, moves>>

-----------------------------------------------------------------------------
(* The feed and the audit log *)

\* What each event tells of a session's state and of its stream.
StateTold == [pipeline_created |-> "created", pipeline_started |-> "running",
              pipeline_paused |-> "paused", pipeline_resumed |-> "running",
              pipeline_stopped |-> "stopped"]

StreamTold == [pipeline_created |-> FALSE, pipeline_started |-> TRUE,
               pipeline_paused |-> FALSE, pipeline_resumed |-> TRUE,
               payment_stream_started |-> TRUE, payment_stream_stalled |-> FALSE,
               payment_stream_terminated |-> FALSE]

Told(told, e, before) == IF e.kind \in DOMAIN told THEN told[e.kind] ELSE before

Heard(log, e) ==
    IF e.on = NoSession THEN log
    ELSE [log EXCEPT ![e.on] = [state |-> Told(StateTold, e, @.state),
                                stream |-> Told(StreamTold, e, @.stream),
                                units |-> @.units + e.units]]

\* The event reaches no reader of the topic.
Loses(e) ==
    /\ gaps' = gaps \union ({e.on} \ {NoSession})
    /\ lostUnits' = IF e.on = NoSession THEN lostUnits
                    ELSE [lostUnits EXCEPT ![e.on] = @ + e.units]

EventOf(item) == [kind |-> item.kind, on |-> item.on, units |-> item.units]

\* A mutated enqueue: a queue without a capacity.
EnqueueAlways(e) == queue' = Append(queue, e) /\ UNCHANGED <<lostUnits, gaps>>

\* enqueueHCSPayload: a full queue drops the event.
Enqueue(e) ==
    IF Len(queue) < QueueSize
      THEN queue' = Append(queue, e) /\ UNCHANGED <<lostUnits, gaps>>
      ELSE Loses(e) /\ UNCHANGED queue

\* A goroutine tells the next of what it has to tell.
TellsNext(w) ==
    /\ script[w] # <<>>
    /\ LET item == Head(script[w]) IN
         IF item.to = "feed"
           THEN Record(item.kind, item.on) /\ UNCHANGED <<queue, lostUnits, gaps>>
           ELSE Enqueue(EventOf(item)) /\ UNCHANGED feed
    /\ script' = [script EXCEPT ![w] = Tail(@)]
    /\ UNCHANGED <<sessionVars, stopping, passVars, inHand, topic, historyVars, moves, failures>>

\* hcsSubmitLoop takes the next event ...
SubmitTakes ==
    /\ inHand = <<>>
    /\ queue # <<>>
    /\ inHand' = <<Head(queue)>>
    /\ queue' = Tail(queue)
    /\ UNCHANGED <<sessionVars, feed, stopping, script, passVars, topic, lostUnits, gaps, historyVars,
                   moves, failures>>

\* ... and the topic takes it.
SubmitLands ==
    /\ inHand # <<>>
    /\ topic' = Heard(topic, Head(inHand))
    /\ inHand' = <<>>
    /\ UNCHANGED <<sessionVars, feed, stopping, script, passVars, queue, lostUnits, gaps, historyVars,
                   moves, failures>>

\* An event whose submit fails is not tried again.
SubmitFails ==
    /\ inHand # <<>>
    /\ failures < MaxFailures
    /\ failures' = failures + 1
    /\ Loses(Head(inHand))
    /\ inHand' = <<>>
    /\ UNCHANGED <<sessionVars, feed, stopping, script, passVars, queue, topic, historyVars,
                   moves>>

AuditNext ==
    \/ \E r \in Requests : \/ StopCommits(r)
                           \/ StopFails(r)
                           \/ TopUp(r)
    \/ \E r \in Requests, s \in Sessions : \/ Create(r, s)
                                           \/ Start(r, s)
                                           \/ Pause(r, s)
                                           \/ Resume(r, s)
                                           \/ Reject(r, s)
                                           \/ StopReads(r, s)
                                           \/ Reconfigure(r, s)
    \/ \E r \in Requests, s \in Sessions, active \in BOOLEAN : SetStream(r, s, active)
    \/ PassBegins
    \/ \E s \in Sessions : \/ PassSkips(s)
                           \/ PassCharges(s)
                           \/ PassPauses(s)
                           \/ PassPausedEgress(s)
                           \/ PassPauseEgressFails(s)
    \/ \E w \in Writers : TellsNext(w)
    \/ SubmitTakes
    \/ SubmitLands
    \/ SubmitFails

-----------------------------------------------------------------------------
(* What readers are shown *)

\* Snapshot: the latest entries, the newest first.
Snapshot(limit) ==
    Reverse(Recent(feed, IF limit <= 0 THEN Len(feed) ELSE limit))

\* ActivityForSession, whose scan of 512 entries covers the whole feed: the
\* rows about a session, until there are enough.
ActivityForSession(s, limit) ==
    LET n == IF limit <= 0 THEN 50 ELSE limit
    IN FoldLeft(LAMBDA rows, e : IF e.on = s /\ Len(rows) < n THEN Append(rows, e) ELSE rows,
                <<>>, Snapshot(0))

-----------------------------------------------------------------------------
(* Properties *)

\* The audit log once the events that wait for the topic have reached it.
Log == FoldLeft(Heard, topic, inHand \o queue)

\* The audit log ends with the state and the stream that a session has,
\* however calls on other sessions and the pass come between: unless calls on
\* this one overlapped, which may tell their changes in another order than
\* they made them, or an event of it was lost.
AuditTellsState ==
    \A s \in sessions :
        ~Busy(s) /\ s \notin blurred \union gaps =>
            Log[s].state = state[s] /\ Log[s].stream = stream[s]

\* The newest row of list (the newest first) that tells of a value tells v.
LastTells(list, told, v) ==
    LET telling == {i \in DOMAIN list : list[i].kind \in DOMAIN told}
    IN telling # {} => told[list[Min(telling)].kind] = v

\* In the feed, a stop stands for the end of its stream too.
StreamFed == [kind \in DOMAIN StreamTold \union {"pipeline_stopped"} |->
                IF kind = "pipeline_stopped" THEN FALSE ELSE StreamTold[kind]]

\* What an agent is shown of its session's activity tells, as far as it goes
\* back, the state and the stream that the session has: unless calls on it
\* overlapped, or the pass could not take its egress away, when the feed
\* still shows the session that the pass has paused as running.
FeedTellsState ==
    \A s \in sessions :
        ~Busy(s) /\ s \notin blurred \union unfed =>
            LET shown == ActivityForSession(s, MaxEntries) IN
            /\ LastTells(shown, StateTold, state[s])
            /\ LastTells(shown, StreamFed, stream[s])

\* Units of session s that the pass is about to report.
BeingReported(s) ==
    FoldLeft(LAMBDA n, e : n + (IF e.on = s THEN e.units ELSE 0), 0, script[Ticker])

\* Every unit charged to a session is yet to be summarised or in one summary:
\* no summary reports a unit that another does, and none goes missing but with
\* an event that the full queue or a failed submit lost.
AuditConservesUnits ==
    \A s \in Sessions :
        charged[s] = unreported[s] + BeingReported(s) + Log[s].units + lostUnits[s]
=============================================================================
